---- MODULE Spec2Model ----
(***************************************************************************)
(* Model of the endorsement file processor (src/file_processor.py): the    *)
(* spreadsheet structure detector, the label-value matrix and row-per-     *)
(* record extractors, the core-field normalizer, the value cleaner and the *)
(* JSON flattener.                                                         *)
(*                                                                         *)
(* A Python str is a sequence of one-character strings, so that lower(),   *)
(* strip(), `in` (substring) and re.findall(r'\d+') are computed character *)
(* by character.  A Python value is a tagged record (StrV, IntV, None,     *)
(* NaN, BoolV, DictV, ListV); a dict is the sequence of its items in       *)
(* insertion order: iteration order decides which label the normalizer     *)
(* picks.                                                                  *)
(***************************************************************************)
EXTENDS Naturals, Integers, Sequences, FiniteSets, TLC

VARIABLES
    pc,              \* position of the run: which call comes next
    input,           \* the decoded sheet or JSON document handed to the processor
    df,              \* the DataFrame of the sheet once cleaned
    structure_info,  \* result of detect_excel_structure
    endorsements,    \* the list of endorsement records produced
    call,            \* a single call of a pure helper: its name and arguments
    ret              \* what that call returned

vars == <<pc, input, df, structure_info, endorsements, call, ret>>

\* Marks a variable that holds nothing yet.
Nothing == [t |-> "nothing"]

-----------------------------------------------------------------------------
(* Python values                                                           *)

None == [t |-> "none"]
NaN == [t |-> "nan"]
StrV(s) == [t |-> "str", s |-> s]
IntV(n) == [t |-> "int", n |-> n]
BoolV(b) == [t |-> "bool", b |-> b]
DictV(items) == [t |-> "dict", items |-> items]
ListV(elems) == [t |-> "list", elems |-> elems]

-----------------------------------------------------------------------------
(* str operations *)

\* str.strip() with no argument removes leading and trailing whitespace.
IsSpace(c) == c \in {" ", "\t", "\n"}

\* \d of the re module.
IsDigit(c) == c \in {"0", "1", "2", "3", "4", "5", "6", "7", "8", "9"}

UpperChars == <<"A","B","C","D","E","F","G","H","I","J","K","L","M","N","O","P","Q","R","S","T","U","V","W","X","Y","Z","Á","É","Í","Ó","Ú","Ñ">>
LowerChars == <<"a","b","c","d","e","f","g","h","i","j","k","l","m","n","o","p","q","r","s","t","u","v","w","x","y","z","á","é","í","ó","ú","ñ">>

\* The lowercase form of each uppercase letter
LowerOf ==
    [c \in { UpperChars[i] : i \in 1..Len(UpperChars) } |->
        LowerChars[CHOOSE i \in 1..Len(UpperChars) : UpperChars[i] = c]]

LowerChar(c) == IF c \in DOMAIN LowerOf THEN LowerOf[c] ELSE c

\* str.lower()
Lower(s) == [i \in 1..Len(s) |-> LowerChar(s[i])]

\* str.strip(): what lies between the first and the last non-whitespace character
Strip(s) ==
    LET inked == { i \in 1..Len(s) : ~IsSpace(s[i]) }
    IN  IF inked = {} THEN <<>>
        ELSE SubSeq(s, CHOOSE i \in inked : \A j \in inked : i <= j,
                       CHOOSE i \in inked : \A j \in inked : i >= j)

\* sub in s
Contains(sub, s) ==
    \E i \in 0..(Len(s) - Len(sub)) : \A j \in 1..Len(sub) : s[i + j] = sub[j]

RECURSIVE DigitRunEnd(_, _)
\* Last index of the run of digits of s that starts at index i.
DigitRunEnd(s, i) ==
    IF i < Len(s) /\ IsDigit(s[i + 1]) THEN DigitRunEnd(s, i + 1) ELSE i

RECURSIVE FindAllDigits(_, _)
\* re.findall(r'\d+', s), scanning from index i: the maximal digit runs, left to right.
FindAllDigits(s, i) ==
    IF i > Len(s) THEN <<>>
    ELSE IF IsDigit(s[i])
         THEN <<SubSeq(s, i, DigitRunEnd(s, i))>> \o FindAllDigits(s, DigitRunEnd(s, i) + 1)
         ELSE FindAllDigits(s, i + 1)

DigitChars == <<"0", "1", "2", "3", "4", "5", "6", "7", "8", "9">>

RECURSIVE Decimal(_)
\* str(n) of a non-negative int
Decimal(n) ==
    IF n < 10 THEN <<DigitChars[n + 1]>>
    ELSE Decimal(n \div 10) \o <<DigitChars[(n % 10) + 1]>>

\* str(value) for the scalar values a cell or a JSON leaf holds
PyStr(value) ==
    CASE value.t = "str" -> value.s
      [] value.t = "int" -> Decimal(value.n)
      [] value.t = "none" -> <<"N", "o", "n", "e">>
      [] value.t = "nan" -> <<"n", "a", "n">>
      [] value.t = "bool" -> IF value.b THEN <<"T", "r", "u", "e">>
                                        ELSE <<"F", "a", "l", "s", "e">>

\* bool(value): Python truthiness
Truthy(value) ==
    CASE value.t = "str" -> value.s # <<>>
      [] value.t = "int" -> value.n # 0
      [] value.t = "none" -> FALSE
      [] value.t = "nan" -> TRUE
      [] value.t = "bool" -> value.b
      [] value.t = "dict" -> value.items # <<>>
      [] value.t = "list" -> value.elems # <<>>

\* pd.notna(value)
NotNa(value) == value.t \notin {"nan", "none"}

-----------------------------------------------------------------------------
(* dict operations: a dict is a sequence of items [k, v] with distinct keys *)

HasKey(d, key) == \E i \in 1..Len(d) : d[i].k = key

\* d[key]
Get(d, key) == d[CHOOSE i \in 1..Len(d) : d[i].k = key].v

RECURSIVE Put(_, _, _)
\* d[key] = value: replaces in place when the key exists, appends otherwise
Put(d, key, value) ==
    IF d = <<>> THEN <<[k |-> key, v |-> value]>>
    ELSE IF Head(d).k = key THEN <<[k |-> key, v |-> value]>> \o Tail(d)
    ELSE <<Head(d)>> \o Put(Tail(d), key, value)

RECURSIVE Update(_, _)
\* d.update(other)
Update(d, other) ==
    IF other = <<>> THEN d
    ELSE Update(Put(d, Head(other).k, Head(other).v), Tail(other))

-----------------------------------------------------------------------------
(* FileProcessor.__init__: the field mapping table, in declaration order *)

core_field_mappings == <<
    [k |-> <<"n","ú","m","e","r","o"," ","d","e"," ","p","ó","l","i","z","a">>,
     v |-> "policy_number"],
    [k |-> <<"n","u","m","e","r","o"," ","d","e"," ","p","o","l","i","z","a">>,
     v |-> "policy_number"],
    [k |-> <<"n","u","m","e","r","o"," ","d","e"," ","p","ó","l","i","z","a">>,
     v |-> "policy_number"],
    [k |-> <<"n","ú","m","e","r","o"," ","d","e"," ","p","o","l","i","z","a">>,
     v |-> "policy_number"],
    [k |-> <<"p","o","l","i","c","y","_","n","u","m","b","e","r">>,
     v |-> "policy_number"],
    [k |-> <<"p","o","l","i","z","a">>,
     v |-> "policy_number"],
    [k |-> <<"p","ó","l","i","z","a">>,
     v |-> "policy_number"],
    [k |-> <<"n","o","m","b","r","e"," ","d","e","l"," ","e","n","d","o","s","o">>,
     v |-> "endorsement_type"],
    [k |-> <<"t","i","p","o"," ","d","e"," ","e","n","d","o","s","o">>,
     v |-> "endorsement_type"],
    [k |-> <<"e","n","d","o","r","s","e","m","e","n","t","_","t","y","p","e">>,
     v |-> "endorsement_type"],
    [k |-> <<"e","n","d","o","s","o">>,
     v |-> "endorsement_type"],
    [k |-> <<"v","e","r","s","i","ó","n"," ","d","e","l"," ","e","n","d","o","s","o"," ","i","n","i","c","i","a","l">>,
     v |-> "endorsement_version"],
    [k |-> <<"v","e","r","s","i","o","n"," ","d","e","l"," ","e","n","d","o","s","o"," ","i","n","i","c","i","a","l">>,
     v |-> "endorsement_version"],
    [k |-> <<"v","e","r","s","i","ó","n"," ","d","e","l"," ","e","n","d","o","s","o">>,
     v |-> "endorsement_version"],
    [k |-> <<"v","e","r","s","i","o","n"," ","d","e","l"," ","e","n","d","o","s","o">>,
     v |-> "endorsement_version"],
    [k |-> <<"e","n","d","o","r","s","e","m","e","n","t","_","v","e","r","s","i","o","n">>,
     v |-> "endorsement_version"],
    [k |-> <<"v","e","r","s","i","o","n">>,
     v |-> "endorsement_version"],
    [k |-> <<"v","e","r","s","i","ó","n">>,
     v |-> "endorsement_version"]
>>

PolicyWords == <<<<"p","ó","l","i","z","a">>, <<"p","o","l","i","z","a">>, <<"p","o","l","i","c","y">>>>
EndorsementWords == <<<<"e","n","d","o","s","o">>, <<"e","n","d","o","r","s","e","m","e","n","t">>, <<"n","o","m","b","r","e">>>>
VersionWords == <<<<"v","e","r","s","i","ó","n">>, <<"v","e","r","s","i","o","n">>>>

\* The placeholder strings of process_field_value
PlaceholderTokens == {<<>>, <<"n","a","n">>, <<"N","o","n","e">>, <<"n","u","l","l">>}

-----------------------------------------------------------------------------
(* FileProcessor.process_field_value *)

\* process_field_value returning the last number found instead of the first.
process_field_value_LastNumber(field_value, field_type) ==
    IF ~Truthy(field_value) \/ Strip(PyStr(field_value)) \in PlaceholderTokens
    THEN None
    ELSE IF field_type = "policy_number"
         THEN LET cleaned_value == Strip(PyStr(field_value))
                  numbers == FindAllDigits(cleaned_value, 1)
              IN  IF numbers # <<>> THEN StrV(numbers[Len(numbers)]) ELSE StrV(cleaned_value)
         ELSE StrV(Strip(PyStr(field_value)))

process_field_value(field_value, field_type) ==
    IF ~Truthy(field_value) \/ Strip(PyStr(field_value)) \in PlaceholderTokens
    THEN None
    ELSE IF field_type = "policy_number"
         THEN LET cleaned_value == Strip(PyStr(field_value))
                  numbers == FindAllDigits(cleaned_value, 1)
              IN  IF numbers # <<>> THEN StrV(numbers[1]) ELSE StrV(cleaned_value)
         ELSE StrV(Strip(PyStr(field_value)))

-----------------------------------------------------------------------------
(* FileProcessor.extract_core_fields_from_combination *)

\* Index of the first TRUE of a sequence of booleans, 0 when none: the item at
\* which a `for ... if ...: break` loop over the dict's items stops.
FirstTrue(matches) ==
    IF \E i \in 1..Len(matches) : matches[i]
    THEN CHOOSE i \in 1..Len(matches) :
            matches[i] /\ \A j \in 1..(i - 1) : ~matches[j]
    ELSE 0

\* The exact-match comparison without the strip() of the label.
ExactMatchIndex_NoStrip(combination_data, spanish_field) ==
    FirstTrue([i \in 1..Len(combination_data) |->
                  Lower(spanish_field) = Lower(combination_data[i].k)])

\* The exact-match loop: spanish_field.lower() == field_name.lower().strip()
ExactMatchIndex(combination_data, spanish_field) ==
    FirstTrue([i \in 1..Len(combination_data) |->
                  Lower(spanish_field) = Strip(Lower(combination_data[i].k))])

\* The key words of the partial-match branches
KeyWords(english_field) ==
    CASE english_field = "policy_number" -> PolicyWords
      [] english_field = "endorsement_type" -> EndorsementWords
      [] english_field = "endorsement_version" -> VersionWords
      [] OTHER -> <<>>

\* The partial match as a symmetric containment test against the variants.
PartialMatchIndex_Symmetric(combination_data, english_field) ==
    FirstTrue([i \in 1..Len(combination_data) |->
                  \E j \in 1..Len(core_field_mappings) :
                      /\ core_field_mappings[j].v = english_field
                      /\ \/ Contains(core_field_mappings[j].k, Strip(Lower(combination_data[i].k)))
                         \/ Contains(Strip(Lower(combination_data[i].k)), core_field_mappings[j].k)])

\* The partial-match loop: any(word in field_name_clean for word in [...])
PartialMatchIndex(combination_data, english_field) ==
    LET words == KeyWords(english_field)
    IN  FirstTrue([i \in 1..Len(combination_data) |->
                      \E w \in 1..Len(words) :
                          Contains(words[w], Strip(Lower(combination_data[i].k)))])

\* One pass of the body of `for spanish_field, english_field in
\* self.core_field_mappings.items()`, for the entry handed in.
MappingStep(entry, core_fields, combination_data) ==
    LET spanish_field == entry.k
        english_field == entry.v
        exact == ExactMatchIndex(combination_data, spanish_field)
        after_exact ==
            IF exact # 0
            THEN Put(core_fields, english_field,
                     process_field_value(combination_data[exact].v, english_field))
            ELSE core_fields
        partial == PartialMatchIndex(combination_data, english_field)
    IN  IF ~HasKey(after_exact, english_field) /\ partial # 0
        THEN Put(after_exact, english_field,
                 process_field_value(combination_data[partial].v, english_field))
        ELSE after_exact

RECURSIVE MappingLoop(_, _, _)
\* The loop over core_field_mappings.items(), from entry i on, with core_fields so far.
MappingLoop(i, core_fields, combination_data) ==
    IF i > Len(core_field_mappings) THEN core_fields
    ELSE LET spanish_field == core_field_mappings[i].k
             english_field == core_field_mappings[i].v
             exact == ExactMatchIndex(combination_data, spanish_field)
             after_exact ==
                 IF exact # 0
                 THEN Put(core_fields, english_field,
                          process_field_value(combination_data[exact].v, english_field))
                 ELSE core_fields
             partial == PartialMatchIndex(combination_data, english_field)
             after_partial ==
                 IF ~HasKey(after_exact, english_field) /\ partial # 0
                 THEN Put(after_exact, english_field,
                          process_field_value(combination_data[partial].v, english_field))
                 ELSE after_exact
         IN  MappingLoop(i + 1, after_partial, combination_data)

extract_core_fields_from_combination(combination_data) ==
    MappingLoop(1, <<>>, combination_data)

\* core_fields.get(name)
CoreGet(core_fields, name) ==
    IF HasKey(core_fields, name) THEN Get(core_fields, name) ELSE None

-----------------------------------------------------------------------------
(* FileProcessor.flatten_dict *)

RECURSIVE flatten_dict(_, _, _)
RECURSIVE FlattenItems(_, _, _, _, _)
RECURSIVE FlattenList(_, _, _, _, _)

\* The list expansion with the index suffix counted from 1.
FlattenList_OneBased(elems, new_key, separator, i, flattened) ==
    IF i > Len(elems) THEN flattened
    ELSE FlattenList(elems, new_key, separator, i + 1,
             Update(flattened,
                    flatten_dict(elems[i].items, new_key \o <<"_">> \o Decimal(i),
                                 separator)))

\* for i, item in enumerate(value): flattened.update(flatten_dict(item, f"{new_key}_{i}"))
\* from element i (1-based) on.
FlattenList(elems, new_key, separator, i, flattened) ==
    IF i > Len(elems) THEN flattened
    ELSE FlattenList(elems, new_key, separator, i + 1,
             Update(flattened,
                    flatten_dict(elems[i].items, new_key \o <<"_">> \o Decimal(i - 1),
                                 separator)))

\* The loop storing str(value) for a scalar value instead of the value.
FlattenItems_Stringified(data, prefix, separator, i, flattened) ==
    IF i > Len(data) THEN flattened
    ELSE LET key == data[i].k
             value == data[i].v
             new_key == IF prefix # <<>> THEN prefix \o separator \o key ELSE key
             next ==
                 IF value.t = "dict"
                 THEN Update(flattened, flatten_dict(value.items, new_key, separator))
                 ELSE IF value.t = "list" /\ value.elems # <<>> /\ value.elems[1].t = "dict"
                      THEN FlattenList(value.elems, new_key, separator, 1, flattened)
                      ELSE Put(flattened, new_key,
                               IF value.t = "list" THEN value ELSE StrV(PyStr(value)))
         IN  FlattenItems(data, prefix, separator, i + 1, next)

\* for key, value in data.items(): from item i on, with the dict flattened so far.
FlattenItems(data, prefix, separator, i, flattened) ==
    IF i > Len(data) THEN flattened
    ELSE LET key == data[i].k
             value == data[i].v
             new_key == IF prefix # <<>> THEN prefix \o separator \o key ELSE key
             next ==
                 IF value.t = "dict"
                 THEN Update(flattened, flatten_dict(value.items, new_key, separator))
                 ELSE IF value.t = "list" /\ value.elems # <<>> /\ value.elems[1].t = "dict"
                      THEN FlattenList(value.elems, new_key, separator, 1, flattened)
                      ELSE Put(flattened, new_key, value)
         IN  FlattenItems(data, prefix, separator, i + 1, next)

flatten_dict(data, prefix, separator) ==
    FlattenItems(data, prefix, separator, 1, <<>>)

-----------------------------------------------------------------------------
(* DataFrames: ncols columns labelled 0..ncols-1 (read with header=None), the  *)
(* row labels in index, and the rows, each a sequence of ncols cells.          *)

\* len(df)
NRows(frame) == Len(frame.rows)

\* df.iloc[row_idx, col_idx], both 0-based
Cell(frame, row_idx, col_idx) == frame.rows[row_idx + 1][col_idx + 1]

\* df.dropna(how='all', axis=0): the rows that are not entirely NaN, labels kept
DropEmptyRows(frame) ==
    LET keep == { i \in 1..Len(frame.rows) :
                    \E c \in 1..frame.ncols : NotNa(frame.rows[i][c]) }
        RECURSIVE Kept(_)
        Kept(i) ==
            IF i > Len(frame.rows) THEN <<>>
            ELSE IF i \in keep THEN <<i>> \o Kept(i + 1) ELSE Kept(i + 1)
        order == Kept(1)
    IN  [ncols |-> frame.ncols,
         index |-> [j \in 1..Len(order) |-> frame.index[order[j]]],
         rows |-> [j \in 1..Len(order) |-> frame.rows[order[j]]]]

\* df.fillna('')
FillNa(frame) ==
    [ncols |-> frame.ncols,
     index |-> frame.index,
     rows |-> [i \in 1..Len(frame.rows) |->
                 [c \in 1..frame.ncols |->
                     IF NotNa(frame.rows[i][c]) THEN frame.rows[i][c] ELSE StrV(<<>>)]]]

\* pd.notna(v) and str(v).strip() and str(v) != 'nan': the cell holds a value
HasValue(value) ==
    /\ NotNa(value)
    /\ Strip(PyStr(value)) # <<>>
    /\ PyStr(value) # <<"n", "a", "n">>

-----------------------------------------------------------------------------
(* FileProcessor.detect_excel_structure *)

campo_indicators == <<<<"c","a","m","p","o">>, <<"f","i","e","l","d">>, <<"p","a","r","a","m","e","t","e","r">>>>
spanish_field_patterns == <<<<"n","ú","m","e","r","o">>, <<"n","o","m","b","r","e">>, <<"v","e","r","s","i","ó","n">>, <<"r","a","m","o">>, <<"a","ñ","o">>>>

\* Rows of column B sampled for the indicators, and for the Spanish patterns
IndicatorSample == 10
PatternSample == 15

\* A column needs this many meaningful values to be a combination column
MinColumnValues == 3

\* At least this many Spanish patterns make a campo structure
MinSpanishPatterns == 2

\* series.head(n)
HeadOf(series, n) == SubSeq(series, 1, IF Len(series) < n THEN Len(series) ELSE n)

\* df.iloc[:, 1].astype(str).str.lower()
ColumnBValues(frame) ==
    [i \in 1..NRows(frame) |-> Lower(PyStr(Cell(frame, i - 1, 1)))]

\* any(token in val for val in sample)
AnyContains(token, sample) ==
    \E i \in 1..Len(sample) : Contains(token, sample[i])

\* has_campo from the explicit indicators alone, the Spanish patterns forgotten.
HasCampo_ExplicitOnly(frame) ==
    \E k \in 1..Len(campo_indicators) :
        AnyContains(campo_indicators[k], HeadOf(ColumnBValues(frame), IndicatorSample))

\* has_campo with a single Spanish pattern taken as enough.
HasCampo_OnePattern(frame) ==
    LET col_b_values == ColumnBValues(frame)
    IN  \/ \E k \in 1..Len(campo_indicators) :
               AnyContains(campo_indicators[k], HeadOf(col_b_values, IndicatorSample))
        \/ \E k \in 1..Len(spanish_field_patterns) :
               AnyContains(spanish_field_patterns[k], HeadOf(col_b_values, PatternSample))

\* has_campo after both checks
HasCampo(frame) ==
    LET col_b_values == ColumnBValues(frame)
        explicit ==
            \E k \in 1..Len(campo_indicators) :
                AnyContains(campo_indicators[k], HeadOf(col_b_values, IndicatorSample))
        spanish_field_count ==
            Cardinality({ k \in 1..Len(spanish_field_patterns) :
                AnyContains(spanish_field_patterns[k], HeadOf(col_b_values, PatternSample)) })
    IN  explicit \/ spanish_field_count >= MinSpanishPatterns

\* len(col_data) in place of len(non_empty_data): every row counts.
MeaningfulValues_AllRows(frame, col_idx) == NRows(frame)

\* len(non_empty_data) of column col_idx
MeaningfulValues(frame, col_idx) ==
    Cardinality({ r \in 0..(NRows(frame) - 1) : HasValue(Cell(frame, r, col_idx)) })

RECURSIVE CombinationColumns(_, _)

\* The combination columns with the threshold one too low (>= 2 values).
CombinationColumns_TwoValues(frame, col_idx) ==
    IF col_idx >= frame.ncols THEN <<>>
    ELSE IF MeaningfulValues(frame, col_idx) >= MinColumnValues - 1
         THEN <<col_idx>> \o CombinationColumns(frame, col_idx + 1)
         ELSE CombinationColumns(frame, col_idx + 1)

\* for col_idx in range(2, len(df.columns)): the qualifying columns from col_idx on
CombinationColumns(frame, col_idx) ==
    IF col_idx >= frame.ncols THEN <<>>
    ELSE IF MeaningfulValues(frame, col_idx) >= MinColumnValues
         THEN <<col_idx>> \o CombinationColumns(frame, col_idx + 1)
         ELSE CombinationColumns(frame, col_idx + 1)

\* structure_info of a campo structure with the given combination columns
CampoStructure(combination_columns) ==
    [type |-> "campo_combinations",
     campo_column |-> IntV(1),
     data_start_column |->
         IF combination_columns # <<>> THEN IntV(combination_columns[1]) ELSE None,
     combination_columns |-> combination_columns,
     combination_count |-> Len(combination_columns)]

\* structure_info as initialised, with the type set by the fallback ('record_based')
\* or by the exception handler ('unknown')
PlainStructure(type) ==
    [type |-> type,
     campo_column |-> None,
     data_start_column |-> None,
     combination_columns |-> <<>>,
     combination_count |-> 0]

\* The column-count guard off by one (len(df.columns) > 0): on a one-column table
\* df.iloc[:, 1] raises IndexError and the handler answers 'unknown'.
detect_excel_structure_GuardOffByOne(frame) ==
    IF frame.ncols = 1 THEN PlainStructure("unknown")
    ELSE IF frame.ncols > 1 /\ HasCampo(frame)
         THEN CampoStructure(CombinationColumns(frame, 2))
         ELSE PlainStructure("record_based")

\* The detector whose column-B text accessor raises on a table without rows,
\* the handler answering 'unknown'.
detect_excel_structure_EmptyRaises(frame) ==
    IF frame.ncols > 1 /\ NRows(frame) = 0 THEN PlainStructure("unknown")
    ELSE IF frame.ncols > 1 /\ HasCampo(frame)
         THEN CampoStructure(CombinationColumns(frame, 2))
         ELSE PlainStructure("record_based")

detect_excel_structure(frame) ==
    IF frame.ncols > 1 /\ HasCampo(frame)
    THEN CampoStructure(CombinationColumns(frame, 2))
    ELSE PlainStructure("record_based")

-----------------------------------------------------------------------------
(* FileProcessor.process_campo_combinations_structure *)

\* A combination needs this many values found
MinValuesFound == 3

\* A combination without policy number and type is kept from this many fields on
RescueFieldCount == 5

\* The label of row idx of the campo column, stripped
CleanField(frame, campo_col, idx) == Strip(PyStr(Cell(frame, idx, campo_col)))

\* The rows of the campo column that carry a label
LabelledRow(frame, campo_col, idx) ==
    LET field == Cell(frame, idx, campo_col)
    IN  NotNa(field) /\ Strip(PyStr(field)) # <<>>

RECURSIVE FieldNames(_, _, _)
\* field_names: the labels in row order, repeated labels included, from row idx on
FieldNames(frame, campo_col, idx) ==
    IF idx >= NRows(frame) THEN <<>>
    ELSE IF LabelledRow(frame, campo_col, idx)
         THEN <<CleanField(frame, campo_col, idx)>> \o FieldNames(frame, campo_col, idx + 1)
         ELSE FieldNames(frame, campo_col, idx + 1)

RECURSIVE FieldRowMapping(_, _, _, _)
\* field_row_mapping[clean_field] = idx, a later row replacing an earlier one
FieldRowMapping(frame, campo_col, idx, mapping) ==
    IF idx >= NRows(frame) THEN mapping
    ELSE IF LabelledRow(frame, campo_col, idx)
         THEN FieldRowMapping(frame, campo_col, idx + 1,
                              Put(mapping, CleanField(frame, campo_col, idx), idx))
         ELSE FieldRowMapping(frame, campo_col, idx + 1, mapping)

RECURSIVE CombinationValues(_, _, _, _, _, _)
\* The loop over field_names for one combination column, from name i on; acc holds
\* combination_data and values_found.
CombinationValues(frame, combination_col, field_names, field_row_mapping, i, acc) ==
    IF i > Len(field_names) THEN acc
    ELSE LET field_name == field_names[i]
             row_idx == Get(field_row_mapping, field_name)
             field_value == Cell(frame, row_idx, combination_col)
         IN  CombinationValues(frame, combination_col, field_names, field_row_mapping, i + 1,
                 IF row_idx < NRows(frame) /\ HasValue(field_value)
                 THEN [combination_data |->
                           Put(acc.combination_data, field_name, StrV(Strip(PyStr(field_value)))),
                       values_found |-> acc.values_found + 1]
                 ELSE acc)

\* has_required_data
MatrixViable(core_fields, combination_data) ==
    \/ Truthy(CoreGet(core_fields, "policy_number"))
    \/ Truthy(CoreGet(core_fields, "endorsement_type"))
    \/ Len(combination_data) >= RescueFieldCount

\* The endorsement keeping in all_fields only the labels that are a configured variant.
MatrixEndorsement_MatchedOnly(combination_number, core_fields, combination_data, values_found, combination_col) ==
    LET matched == SelectSeq(combination_data,
                       LAMBDA item : \E j \in 1..Len(core_field_mappings) :
                                        core_field_mappings[j].k = Strip(Lower(item.k)))
    IN  [combination_number |-> combination_number,
         core_fields |-> core_fields,
         all_fields |-> matched,
         spanish_fields |-> matched,
         field_count |-> Len(combination_data),
         extraction_method |-> "campo_combinations",
         combination_id |-> <<"c", "o", "m", "b", "o", "_">> \o Decimal(combination_number),
         values_found |-> values_found,
         column_index |-> combination_col]

\* The endorsement keeping in all_fields only the labels that match no variant.
MatrixEndorsement_UnmatchedOnly(combination_number, core_fields, combination_data, values_found, combination_col) ==
    LET other == SelectSeq(combination_data,
                     LAMBDA item : \A j \in 1..Len(core_field_mappings) :
                                      core_field_mappings[j].k # Strip(Lower(item.k)))
    IN  [combination_number |-> combination_number,
         core_fields |-> core_fields,
         all_fields |-> other,
         spanish_fields |-> other,
         field_count |-> Len(combination_data),
         extraction_method |-> "campo_combinations",
         combination_id |-> <<"c", "o", "m", "b", "o", "_">> \o Decimal(combination_number),
         values_found |-> values_found,
         column_index |-> combination_col]

\* The endorsement dict of one combination
MatrixEndorsement(combination_number, core_fields, combination_data, values_found, combination_col) ==
    [combination_number |-> combination_number,
     core_fields |-> core_fields,
     all_fields |-> combination_data,
     spanish_fields |-> combination_data,
     field_count |-> Len(combination_data),
     extraction_method |-> "campo_combinations",
     combination_id |-> <<"c", "o", "m", "b", "o", "_">> \o Decimal(combination_number),
     values_found |-> values_found,
     column_index |-> combination_col]

RECURSIVE CombinationLoop(_, _, _, _, _)
\* for col_idx, combination_col in enumerate(combination_columns): from position
\* col_idx (0-based) on, appending to the endorsements so far.
CombinationLoop(frame, combination_columns, field_names, field_row_mapping, col_idx) ==
    IF col_idx >= Len(combination_columns) THEN <<>>
    ELSE LET combination_col == combination_columns[col_idx + 1]
             combination_number == col_idx + 1
             found == CombinationValues(frame, combination_col, field_names,
                          field_row_mapping, 1,
                          [combination_data |-> <<>>, values_found |-> 0])
             combination_data == found.combination_data
             core_fields == extract_core_fields_from_combination(combination_data)
             rest == CombinationLoop(frame, combination_columns, field_names,
                                     field_row_mapping, col_idx + 1)
         IN  IF found.values_found >= MinValuesFound
                /\ MatrixViable(core_fields, combination_data)
             THEN <<MatrixEndorsement(combination_number, core_fields, combination_data,
                                      found.values_found, combination_col)>> \o rest
             ELSE rest

process_campo_combinations_structure(frame, info) ==
    LET campo_col == info.campo_column.n
    IN  CombinationLoop(frame, info.combination_columns,
                        FieldNames(frame, campo_col, 0),
                        FieldRowMapping(frame, campo_col, 0, <<>>), 0)

-----------------------------------------------------------------------------
(* FileProcessor.process_record_based_table *)

\* A row needs this many values
MinRowValues == 3

RECURSIVE RowData(_, _, _, _)
\* for col, value in row.items(): from column col (0-based) on
RowData(frame, row, col, row_data) ==
    IF col >= frame.ncols THEN row_data
    ELSE LET value == Cell(frame, row, col)
         IN  RowData(frame, row, col + 1,
                 IF HasValue(value)
                 THEN Put(row_data, Strip(Decimal(col)), StrV(Strip(PyStr(value))))
                 ELSE row_data)

\* if core_fields.get('policy_number') or core_fields.get('endorsement_type')
HasPolicyOrType(core_fields) ==
    \/ Truthy(CoreGet(core_fields, "policy_number"))
    \/ Truthy(CoreGet(core_fields, "endorsement_type"))

RECURSIVE RowLoop(_, _)
\* for idx, row in df.iterrows(): from row position row (0-based) on
RowLoop(frame, row) ==
    IF row >= NRows(frame) THEN <<>>
    ELSE LET idx == frame.index[row + 1]
             row_data == RowData(frame, row, 0, <<>>)
             core_fields == extract_core_fields_from_combination(row_data)
             rest == RowLoop(frame, row + 1)
         IN  IF Len(row_data) >= MinRowValues /\ HasPolicyOrType(core_fields)
             THEN <<[combination_number |-> 1,
                     core_fields |-> core_fields,
                     all_fields |-> row_data,
                     spanish_fields |-> row_data,
                     field_count |-> Len(row_data),
                     extraction_method |-> "record_based",
                     source_row |-> idx,
                     combination_id |-> <<"r", "o", "w", "_">> \o Decimal(idx)]>> \o rest
             ELSE rest

process_record_based_table(frame) == RowLoop(frame, 0)

-----------------------------------------------------------------------------
(* The try/except blocks of the detector and of the two extractors.  An       *)
(* exception raised inside a try block is an event of the run: fault.at names *)
(* the function it is raised in, fault.done how far that function had got.    *)

\* No exception is raised
NoFault == [at |-> "none", done |-> 0]

\* The frame with only its first n columns visited by a loop over the columns
FirstColumns(frame, n) ==
    [frame EXCEPT !.ncols = IF frame.ncols < n THEN frame.ncols ELSE n]

\* The frame with only its first n rows
FirstRows(frame, n) ==
    [ncols |-> frame.ncols,
     index |-> HeadOf(frame.index, n),
     rows |-> HeadOf(frame.rows, n)]

\* detect_excel_structure with its handler: an exception before the campo
\* decision (done = 0, or no campo structure) leaves the initial fields; one
\* raised in the loop over the columns, after done - 1 columns, leaves the
\* columns appended so far; the handler sets type 'unknown' in both cases.
detect_excel_structure_try(frame, fault) ==
    IF fault.at # "detect" THEN detect_excel_structure(frame)
    ELSE IF fault.done = 0 \/ ~(frame.ncols > 1 /\ HasCampo(frame))
         THEN PlainStructure("unknown")
         ELSE LET so_far == CombinationColumns(FirstColumns(frame, fault.done + 1), 2)
              IN  [CampoStructure(so_far) EXCEPT !.type = "unknown",
                                                 !.combination_count = 0]

\* The matrix extractor answering an exception with an empty list.
process_campo_combinations_structure_try_Empty(frame, info, fault) ==
    IF fault.at # "extract" THEN process_campo_combinations_structure(frame, info)
    ELSE <<>>

\* process_campo_combinations_structure with its handler: an exception raised
\* after done combination columns returns the endorsements appended so far.
process_campo_combinations_structure_try(frame, info, fault) ==
    IF fault.at # "extract" THEN process_campo_combinations_structure(frame, info)
    ELSE process_campo_combinations_structure(frame,
             [info EXCEPT !.combination_columns = HeadOf(info.combination_columns, fault.done)])

\* process_record_based_table with its handler: an exception raised after done
\* rows returns the endorsements appended so far.
process_record_based_table_try(frame, fault) ==
    IF fault.at # "extract" THEN process_record_based_table(frame)
    ELSE process_record_based_table(FirstRows(frame, fault.done))

-----------------------------------------------------------------------------
(* FileProcessor.process_json_combination and process_json_file *)

\* any(isinstance(v, dict) for v in data.values())
AnyDictValue(data) == \E i \in 1..Len(data) : data[i].v.t = "dict"

\* The endorsement built from one JSON object, as a list of zero or one record
\* (None is returned when the object is not a dict or lacks policy number and type).
process_json_combination(data, combination_number) ==
    IF data.t # "dict" THEN <<>>
    ELSE LET flattened_data ==
                 IF AnyDictValue(data.items)
                 THEN flatten_dict(data.items, <<>>, <<"_">>)
                 ELSE data.items
             core_fields == extract_core_fields_from_combination(flattened_data)
         IN  IF HasPolicyOrType(core_fields)
             THEN <<[combination_number |-> combination_number,
                     core_fields |-> core_fields,
                     all_fields |-> flattened_data,
                     spanish_fields |-> flattened_data,
                     field_count |-> Len(flattened_data),
                     extraction_method |-> "json_combination",
                     combination_id |-> <<"j", "s", "o", "n", "_", "c", "o", "m", "b", "o", "_">>
                                            \o Decimal(combination_number)]>>
             ELSE <<>>

RECURSIVE JsonItems(_, _)
\* for idx, item in enumerate(items): process_json_combination(item, idx + 1)
JsonItems(items, idx) ==
    IF idx >= Len(items) THEN <<>>
    ELSE process_json_combination(items[idx + 1], idx + 1) \o JsonItems(items, idx + 1)

CombinationsKey == <<"c","o","m","b","i","n","a","t","i","o","n","s">>

\* result['endorsements'] of process_json_file for the decoded document json_data
process_json_file(json_data) ==
    IF json_data.t = "dict"
    THEN IF HasKey(json_data.items, CombinationsKey)
         THEN JsonItems(Get(json_data.items, CombinationsKey).elems, 0)
         ELSE process_json_combination(json_data, 1)
    ELSE IF json_data.t = "list"
         THEN JsonItems(json_data.elems, 0)
         ELSE <<>>

-----------------------------------------------------------------------------
(* main.py: extract_core_fields_from_json and the two upload routes *)

\* core_field_mappings of extract_core_fields_from_json, as the source file spells
\* it: the accented variants are stored mis-decoded (U+221A U+222B in place of the letter u-acute),
\* each code point above Latin-1 written here as one character named "U+xxxx"
json_core_field_mappings == <<
    [k |-> <<"n","U+221A","U+222B","m","e","r","o"," ","d","e"," ","p","U+221A","U+2265","l","i","z","a">>, v |-> "policy_number"],
    [k |-> <<"n","u","m","e","r","o"," ","d","e"," ","p","o","l","i","z","a">>, v |-> "policy_number"],
    [k |-> <<"p","o","l","i","c","y","_","n","u","m","b","e","r">>, v |-> "policy_number"],
    [k |-> <<"p","o","l","i","z","a">>, v |-> "policy_number"],
    [k |-> <<"p","U+221A","U+2265","l","i","z","a">>, v |-> "policy_number"],
    [k |-> <<"n","o","m","b","r","e"," ","d","e","l"," ","e","n","d","o","s","o">>, v |-> "endorsement_type"],
    [k |-> <<"t","i","p","o"," ","d","e"," ","e","n","d","o","s","o">>, v |-> "endorsement_type"],
    [k |-> <<"e","n","d","o","r","s","e","m","e","n","t","_","t","y","p","e">>, v |-> "endorsement_type"],
    [k |-> <<"e","n","d","o","s","o">>, v |-> "endorsement_type"],
    [k |-> <<"v","e","r","s","i","U+221A","U+2265","n"," ","d","e","l"," ","e","n","d","o","s","o"," ","i","n","i","c","i","a","l">>, v |-> "endorsement_version"],
    [k |-> <<"v","e","r","s","i","o","n"," ","d","e","l"," ","e","n","d","o","s","o"," ","i","n","i","c","i","a","l">>, v |-> "endorsement_version"],
    [k |-> <<"v","e","r","s","i","U+221A","U+2265","n"," ","d","e","l"," ","e","n","d","o","s","o">>, v |-> "endorsement_version"],
    [k |-> <<"v","e","r","s","i","o","n"," ","d","e","l"," ","e","n","d","o","s","o">>, v |-> "endorsement_version"],
    [k |-> <<"e","n","d","o","r","s","e","m","e","n","t","_","v","e","r","s","i","o","n">>, v |-> "endorsement_version"],
    [k |-> <<"v","e","r","s","i","o","n">>, v |-> "endorsement_version"],
    [k |-> <<"v","e","r","s","i","U+221A","U+2265","n">>, v |-> "endorsement_version"]
>>

\* The first item whose label, lowercased and stripped, equals spanish_field.lower()
JsonExactIndex(json_data, spanish_field) ==
    FirstTrue([i \in 1..Len(json_data) |->
                  Lower(spanish_field) = Strip(Lower(json_data[i].k))])

\* The value stored for a matching label: the policy number is set only for a
\* truthy value with text; the other fields are set to the stripped text or None
JsonFieldUpdate(core_fields, english_field, field_value) ==
    IF english_field = "policy_number"
    THEN IF Truthy(field_value) /\ Strip(PyStr(field_value)) # <<>>
         THEN LET cleaned_value == Strip(PyStr(field_value))
                  numbers == FindAllDigits(cleaned_value, 1)
              IN  Put(core_fields, english_field,
                      IF numbers # <<>> THEN StrV(numbers[1]) ELSE StrV(cleaned_value))
         ELSE core_fields
    ELSE Put(core_fields, english_field,
             IF Truthy(field_value) THEN StrV(Strip(PyStr(field_value))) ELSE None)

RECURSIVE JsonMappingLoop(_, _, _)
\* The loop over core_field_mappings.items(), from entry i on
JsonMappingLoop(i, core_fields, json_data) ==
    IF i > Len(json_core_field_mappings) THEN core_fields
    ELSE LET hit == JsonExactIndex(json_data, json_core_field_mappings[i].k)
         IN  JsonMappingLoop(i + 1,
                 IF hit = 0 THEN core_fields
                 ELSE JsonFieldUpdate(core_fields, json_core_field_mappings[i].v,
                                      json_data[hit].v),
                 json_data)

extract_core_fields_from_json(json_data) == JsonMappingLoop(1, <<>>, json_data)

\* An upload keeps a candidate without policy number and type from this many fields on
FileKeepFields == 3
JsonKeepFields == 5

\* str(core_fields.get('policy_number', 'unknown'))
StoredPolicyNumber(core_fields) ==
    IF HasKey(core_fields, "policy_number")
    THEN PyStr(Get(core_fields, "policy_number"))
    ELSE <<"u","n","k","n","o","w","n">>

\* core_fields.get('endorsement_type', default)
StoredType(core_fields, default) ==
    IF HasKey(core_fields, "endorsement_type")
    THEN Get(core_fields, "endorsement_type")
    ELSE StrV(default)

\* process_excel_file on a decoded workbook of one sheet: result['endorsements']
process_excel_file(sheet) ==
    LET frame == FillNa(DropEmptyRows(sheet))
        info == detect_excel_structure(frame)
    IN  IF info.type = "campo_combinations"
        THEN process_campo_combinations_structure(frame, info)
        ELSE process_record_based_table(frame)

\* process_file: result['endorsements'] for a decoded file
process_file(file) ==
    IF file.kind = "sheet" THEN process_excel_file(file.sheet)
    ELSE process_json_file(file.json_data)

RECURSIVE FileRecords(_, _)
\* upload_file: the rows created from processed_data['endorsements'], from item i on
FileRecords(processed, i) ==
    IF i > Len(processed) THEN <<>>
    ELSE LET endorsement_data == processed[i]
             core_fields == endorsement_data.core_fields
         IN  IF \/ Truthy(CoreGet(core_fields, "policy_number"))
                \/ Truthy(CoreGet(core_fields, "endorsement_type"))
                \/ Len(endorsement_data.all_fields) >= FileKeepFields
             THEN <<[policy_number |-> StoredPolicyNumber(core_fields),
                     endorsement_type |-> StoredType(core_fields, <<"E","X","C","E","L","_","U","P","L","O","A","D">>),
                     endorsement_version |-> CoreGet(core_fields, "endorsement_version"),
                     combination_number |-> endorsement_data.combination_number,
                     combination_id |-> endorsement_data.combination_id,
                     total_combinations |-> Len(processed),
                     file_group_id |-> "file_group_id",
                     spanish_fields |-> endorsement_data.spanish_fields,
                     json_data |-> endorsement_data.all_fields]>>
                  \o FileRecords(processed, i + 1)
             ELSE FileRecords(processed, i + 1)

RECURSIVE JsonTextRecords(_, _)
\* upload_json_text: the rows created from endorsements_to_process, from index idx on
JsonTextRecords(endorsements_to_process, idx) ==
    IF idx >= Len(endorsements_to_process) THEN <<>>
    ELSE LET json_endorsement == endorsements_to_process[idx + 1]
             rest == JsonTextRecords(endorsements_to_process, idx + 1)
         IN  IF json_endorsement.t # "dict" THEN rest
             ELSE LET core_fields == extract_core_fields_from_json(json_endorsement.items)
                  IN  IF \/ Truthy(CoreGet(core_fields, "policy_number"))
                         \/ Truthy(CoreGet(core_fields, "endorsement_type"))
                         \/ Len(json_endorsement.items) >= JsonKeepFields
                      THEN <<[policy_number |-> StoredPolicyNumber(core_fields),
                              endorsement_type |-> StoredType(core_fields, <<"J","S","O","N","_","U","P","L","O","A","D">>),
                              endorsement_version |-> CoreGet(core_fields, "endorsement_version"),
                              combination_number |-> idx + 1,
                              combination_id |-> <<"j","s","o","n","_","c","o","m","b","o","_">>
                                                     \o Decimal(idx + 1),
                              total_combinations |-> Len(endorsements_to_process),
                              file_group_id |-> "file_group_id",
                              spanish_fields |-> json_endorsement.items,
                              json_data |-> json_endorsement.items]>> \o rest
                      ELSE rest

\* upload_file up to its first insert: 400 for a file validate_file rejects,
\* 500 when process_file raises, else the endorsement_records it goes on to create
upload_file(file) ==
    IF ~file.valid THEN [status |-> 400]
    ELSE IF ~file.readable THEN [status |-> 500]
    ELSE [status |-> 200, endorsements |-> FileRecords(process_file(file), 1)]

\* upload_json_text up to its first insert: 400 for text json.loads rejects and
\* for a document that is neither an object nor an array, else the
\* endorsement_records it goes on to create
upload_json_text(text) ==
    IF ~text.parses THEN [status |-> 400]
    ELSE IF text.json_data.t = "dict"
         THEN [status |-> 200, endorsements |-> JsonTextRecords(<<text.json_data>>, 0)]
         ELSE IF text.json_data.t = "list"
              THEN [status |-> 200, endorsements |-> JsonTextRecords(text.json_data.elems, 0)]
              ELSE [status |-> 400]

\* The INSERT of create_endorsement violates a NOT NULL constraint of the
\* endorsements table (policy_number is always a str)
IntegrityError(endorsement_record) == endorsement_record.endorsement_type = None

-----------------------------------------------------------------------------
(* Inputs of the single-call specification *)

CoreFieldNames == {"policy_number", "endorsement_type", "endorsement_version"}

\* Raw values handed to process_field_value
FieldValues == {
    StrV(<<>>),
    StrV(<<" ">>),
    StrV(<<"n","a","n">>),
    StrV(<<"N","o","n","e">>),
    StrV(<<"n","u","l","l">>),
    StrV(<<"N","a","N">>),
    StrV(<<"N","U","L","L">>),
    StrV(<<"n","o","n","e">>),
    StrV(<<" ","n","a","n"," ">>),
    StrV(<<"P","O","L","-","1","6","1","8","8","0","5","-","A">>),
    StrV(<<"N","/","A">>),
    StrV(<<" ","1","6","1","8","8","0","5"," ">>),
    StrV(<<"1","2","a","b","3","4">>),
    StrV(<<"M","a","t","e","r","n","i","d","a","d">>),
    StrV(<<" ","x"," ">>),
    StrV(<<"a","b","c","7">>),
    IntV(0), IntV(1618805), None, NaN
}

\* Labels of the raw field maps: exact variants (in other letter case, padded),
\* labels that match by key word only, and a label that matches nothing
MapLabels == {
    <<"N","ú","m","e","r","o"," ","d","e"," ","p","ó","l","i","z","a">>,
    <<" ","P","O","L","I","Z","A"," ">>,
    <<"P","ó","l","i","z","a"," ","r","e","f">>,
    <<"T","i","p","o"," ","d","e"," ","e","n","d","o","s","o">>,
    <<"V","e","r","s","i","ó","n"," ","d","e","l"," ","e","n","d","o","s","o">>,
    <<"N","o","m","b","r","e">>,
    <<"R","a","m","o">>,
    <<"v","e","r","s","i","o","n">>,
    <<"p","o","l">>
}

MapValues == {StrV(<<"P","O","L","-","1","6","1","8","8","0","5","-","A">>),
    StrV(<<"n","a","n">>),
    StrV(<<" ","V","i","d","a"," ">>)}

\* The items a JSON object is made of: nested objects, a list of objects, a key
\* that collides with a flattened path, recognised labels, labels that match
\* nothing, a number and a list of strings.
JsonItemPool == <<
    [k |-> <<"a">>, v |-> DictV(<<[k |-> <<"b">>, v |-> StrV(<<"1">>)]>>)],
    [k |-> <<"c">>, v |-> ListV(<<DictV(<<[k |-> <<"d">>, v |-> StrV(<<"2">>)]>>)>>)],
    [k |-> <<"a","_","b">>, v |-> StrV(<<"0">>)],
    [k |-> <<"P","o","l","i","z","a">>, v |-> StrV(<<"P","O","L","-","1","6","1","8","8","0","5","-","A">>)],
    [k |-> <<"T","i","p","o"," ","d","e"," ","e","n","d","o","s","o">>, v |-> StrV(<<"M","a","t","e","r","n","i","d","a","d">>)],
    [k |-> <<"R","a","m","o">>, v |-> StrV(<<"V","i","d","a">>)],
    [k |-> <<"P","l","a","n">>, v |-> IntV(7)],
    [k |-> <<"Z","o","n","a">>, v |-> ListV(<<StrV(<<"1">>), StrV(<<"2">>)>>)],
    [k |-> <<"C","a","n","a","l">>, v |-> StrV(<<"W","e","b">>)],
    [k |-> <<"E","d","a","d">>, v |-> StrV(<<"n","a","n">>)],
    [k |-> <<"S","e","x","o">>, v |-> StrV(<<"F">>)]
>>

\* Largest number of keys of a JSON object
MaxKeys == 5

RECURSIVE PickItems(_, _)
\* The items of the pool whose position is in chosen, in pool order, from i on
PickItems(chosen, i) ==
    IF i > Len(JsonItemPool) THEN <<>>
    ELSE IF i \in chosen THEN <<JsonItemPool[i]>> \o PickItems(chosen, i + 1)
         ELSE PickItems(chosen, i + 1)

\* The JSON objects (as item sequences): up to MaxKeys items of the pool
JsonObjects ==
    { PickItems(chosen, 1) :
        chosen \in { c \in SUBSET (1..Len(JsonItemPool)) : Cardinality(c) <= MaxKeys } }

\* Largest number of entries of a raw field map
MaxFields == 2

\* The raw field maps: up to MaxFields items with distinct labels, in any order
RawMaps ==
    UNION {
        { m \in [1..n -> [k : MapLabels, v : MapValues]] :
            \A i, j \in 1..n : i # j => m[i].k # m[j].k }
        : n \in 0..MaxFields }

Calls ==
    { [fn |-> "process_field_value", field_value |-> v, field_type |-> t] :
        v \in FieldValues, t \in CoreFieldNames }
    \cup { [fn |-> "extract_core_fields_from_combination", combination_data |-> m] :
        m \in RawMaps }
    \cup { [fn |-> "flatten_dict", data |-> o] : o \in JsonObjects }

-----------------------------------------------------------------------------
(* The single-call specification: one helper is called once on one input *)

InitFn ==
    /\ pc = "call"
    /\ call \in Calls
    /\ ret = Nothing
    /\ input = Nothing
    /\ df = Nothing
    /\ structure_info = Nothing
    /\ endorsements = Nothing

CallProcessFieldValue ==
    /\ pc = "call"
    /\ call.fn = "process_field_value"
    /\ ret' = process_field_value(call.field_value, call.field_type)
    /\ pc' = "returned"
    /\ UNCHANGED <<call, input, df, structure_info, endorsements>>

CallExtractCoreFields ==
    /\ pc = "call"
    /\ call.fn = "extract_core_fields_from_combination"
    /\ ret' = extract_core_fields_from_combination(call.combination_data)
    /\ pc' = "returned"
    /\ UNCHANGED <<call, input, df, structure_info, endorsements>>

CallFlattenDict ==
    /\ pc = "call"
    /\ call.fn = "flatten_dict"
    /\ ret' = flatten_dict(call.data, <<>>, <<"_">>)
    /\ pc' = "returned"
    /\ UNCHANGED <<call, input, df, structure_info, endorsements>>

NextFn == CallProcessFieldValue \/ CallExtractCoreFields \/ CallFlattenDict

SpecFn == InitFn /\ [][NextFn]_vars

-----------------------------------------------------------------------------
(* Inputs of the file-processing specification *)

\* Largest number of rows and of columns of a generated sheet
MaxRows == 5
MaxCols == 4

\* Label columns (column B), row by row: the policy/type/version labels with a
\* blank spacer row; an explicit "Campo" header over labels that match no core
\* field; repeated labels; a column with a single Spanish pattern.
LabelPools == <<
    <<StrV(<<"N","ú","m","e","r","o"," ","d","e"," ","p","ó","l","i","z","a">>), StrV(<<"T","i","p","o"," ","d","e"," ","e","n","d","o","s","o">>), NaN, StrV(<<"V","e","r","s","i","ó","n"," ","d","e","l"," ","e","n","d","o","s","o">>), StrV(<<"R","a","m","o">>), StrV(<<"A","ñ","o">>), StrV(<<"M","o","n","e","d","a">>)>>,
    <<StrV(<<"C","a","m","p","o">>), StrV(<<"R","a","m","o">>), StrV(<<"A","ñ","o">>), StrV(<<"M","o","n","e","d","a">>), StrV(<<"P","l","a","n">>), StrV(<<"Z","o","n","a">>), StrV(<<"C","a","n","a","l">>)>>,
    <<StrV(<<"N","o","m","b","r","e"," ","d","e","l"," ","e","n","d","o","s","o">>), StrV(<<"V","e","r","s","i","ó","n">>), StrV(<<"N","o","m","b","r","e"," ","d","e","l"," ","e","n","d","o","s","o">>), StrV(<<"P","ó","l","i","z","a">>), StrV(<<"V","e","r","s","i","ó","n">>), StrV(<<"R","a","m","o">>), StrV(<<"A","ñ","o">>)>>,
    <<StrV(<<"A","s","e","g","u","r","a","d","o">>), StrV(<<"R","a","m","o">>), StrV(<<"E","d","a","d">>), StrV(<<"P","l","a","n">>), StrV(<<"Z","o","n","a">>), StrV(<<"C","a","n","a","l">>), StrV(<<"S","e","x","o">>)>>
>>

\* The value of a filled cell of row r (1-based), column col_idx
DataValue(r, col_idx) ==
    CASE r = 1 -> StrV(<<"1","6","1","8","8","0","5">>)
      [] r = 2 -> IF col_idx % 2 = 0 THEN StrV(<<"M","a","t","e","r","n","i","d","a","d">>) ELSE StrV(<<"N","a","t","a","l","i","d","a","d">>)
      [] r = 3 -> StrV(<<"n","o","t","a">>)
      [] r = 4 -> IntV(902 + col_idx)
      [] r = 5 -> StrV(<<" ","V","i","d","a"," ">>)
      [] OTHER -> IntV(2020 + r)

\* The rows a data column fills: the first k rows or the last k rows
Masks(n) == { 1..k : k \in 0..n } \cup { k..n : k \in 1..n }

\* The sheet as read: column A empty, column B the first n labels of pool,
\* every other column filled on the rows of its mask.
MakeSheet(pool, n, w, masks) ==
    [ncols |-> w,
     index |-> [i \in 1..n |-> i - 1],
     rows |-> [i \in 1..n |->
                 [c \in 1..w |->
                     IF c = 1 THEN NaN
                     ELSE IF c = 2 THEN pool[i]
                     ELSE IF i \in masks[c - 1] THEN DataValue(i, c - 1) ELSE NaN]]]

PoolRows(pool) == IF Len(pool) < MaxRows THEN Len(pool) ELSE MaxRows

GeneratedSheets ==
    UNION { UNION { UNION {
        { MakeSheet(LabelPools[p], n, w, masks) : masks \in [2..(w - 1) -> Masks(n)] }
        : w \in 2..MaxCols }
        : n \in 0..PoolRows(LabelPools[p]) }
        : p \in 1..Len(LabelPools) }

\* Sheets with no column, and with column A alone holding the labels
NarrowSheets ==
    { [ncols |-> 0, index |-> <<>>, rows |-> <<>>] }
    \cup UNION { { [ncols |-> 1,
                    index |-> [i \in 1..n |-> i - 1],
                    rows |-> [i \in 1..n |-> <<LabelPools[p][i]>>]]
                   : n \in 0..PoolRows(LabelPools[p]) }
                 : p \in 1..Len(LabelPools) }

\* The sheet of the two-combination scenario: labels in column B, a blank row
ScenarioSheet ==
    [ncols |-> 4,
     index |-> <<0, 1, 2, 3>>,
     rows |-> <<
        <<NaN, StrV(<<"N","ú","m","e","r","o"," ","d","e"," ","p","ó","l","i","z","a">>), StrV(<<"1","6","1","8","8","0","5">>), StrV(<<"1","6","1","8","8","0","5">>)>>,
        <<NaN, StrV(<<"T","i","p","o"," ","d","e"," ","e","n","d","o","s","o">>), StrV(<<"M","a","t","e","r","n","i","d","a","d">>), StrV(<<"N","a","t","a","l","i","d","a","d">>)>>,
        <<NaN, NaN, NaN, NaN>>,
        <<NaN, StrV(<<"V","e","r","s","i","ó","n"," ","d","e","l"," ","e","n","d","o","s","o">>), StrV(<<"9","0","4">>), StrV(<<"9","0","5">>)>>>>]

\* A row-per-record sheet: a header row and one record of six cells
WideSheet ==
    [ncols |-> 6,
     index |-> <<0, 1>>,
     rows |-> <<
        <<StrV(<<"A","s","e","g","u","r","a","d","o">>), StrV(<<"P","o","l","i","z","a">>), StrV(<<"T","i","p","o"," ","d","e"," ","e","n","d","o","s","o">>), StrV(<<"R","a","m","o">>), StrV(<<"P","l","a","n">>), StrV(<<"Z","o","n","a">>)>>,
        <<StrV(<<"A","n","a">>), StrV(<<"P","O","L","-","1","6","1","8","8","0","5","-","A">>), StrV(<<"M","a","t","e","r","n","i","d","a","d">>), StrV(<<"V","i","d","a">>), StrV(<<"A">>), StrV(<<"N","o","r","t","e">>)>>>>]

\* A sheet whose data cells hold "nan", blanks, the number 0 and padded text
OddCellsSheet ==
    [ncols |-> 4,
     index |-> <<0, 1, 2, 3>>,
     rows |-> <<
        <<NaN, StrV(<<"C","a","m","p","o">>), StrV(<<"n","a","n">>), StrV(<<"a">>)>>,
        <<NaN, StrV(<<" ","R","a","m","o"," ">>), StrV(<<" "," ">>), StrV(<<"b">>)>>,
        <<NaN, StrV(<<"A","ñ","o">>), IntV(0), IntV(0)>>,
        <<NaN, StrV(<<"P","l","a","n">>), StrV(<<"x">>), StrV(<<" ","n","a","n"," ">>)>>>>]

\* A sheet of 16 rows, longer than both samples of column B: "Edad" in every
\* row of column B but the rows of marks, which hold the label given for them
TallSheet(marks) ==
    [ncols |-> 3,
     index |-> [i \in 1..16 |-> i - 1],
     rows |-> [i \in 1..16 |->
                 <<NaN,
                   IF i \in DOMAIN marks THEN StrV(marks[i]) ELSE StrV(<<"E","d","a","d">>),
                   IntV(i)>>]]

\* An indicator inside and outside the first 10 rows; two patterns inside the
\* first 15 rows, and one of the two outside
TallSheets ==
    { TallSheet(10 :> <<"C","a","m","p","o">>),
      TallSheet(11 :> <<"C","a","m","p","o">>),
      TallSheet((11 :> <<"R","a","m","o">>) @@ (15 :> <<"A","ñ","o">>)),
      TallSheet((11 :> <<"R","a","m","o">>) @@ (16 :> <<"A","ñ","o">>)) }

Sheets ==
    GeneratedSheets \cup NarrowSheets \cup TallSheets
    \cup {ScenarioSheet, WideSheet, OddCellsSheet}

\* Longest list of a JSON document
MaxListItems == 2

\* The elements of the lists of a JSON document: objects, and one non-object
DocItems ==
    { DictV(PickItems(chosen, 1)) :
        chosen \in { {1, 2}, {4, 5}, {1, 4}, {5}, {6, 7, 8, 9, 11} } }
    \cup { StrV(<<"x">>) }

DocLists == UNION { [1..n -> DocItems] : n \in 0..MaxListItems }

\* The decoded documents: one object, a list, an object with "combinations", a scalar
JsonDocs ==
    { DictV(o) : o \in JsonObjects }
    \cup { ListV(l) : l \in DocLists }
    \cup { DictV(<<[k |-> CombinationsKey, v |-> ListV(l)]>>) : l \in DocLists }
    \cup { StrV(<<"x">>) }

-----------------------------------------------------------------------------
(* The file-processing specification: process_excel_file on one sheet, step by *)
(* step, and process_json_file on one decoded document.                        *)

Init ==
    /\ pc = "start"
    /\ input \in { [kind |-> "sheet", sheet |-> s, fault |-> NoFault] : s \in Sheets }
                 \cup { [kind |-> "json", json_data |-> d] : d \in JsonDocs }
    /\ df = Nothing
    /\ structure_info = Nothing
    /\ endorsements = Nothing
    /\ call = Nothing
    /\ ret = Nothing

\* process_excel_file: df.dropna(how='all', axis=0), df.fillna('')
CleanSheet ==
    /\ pc = "start"
    /\ input.kind = "sheet"
    /\ df' = FillNa(DropEmptyRows(input.sheet))
    /\ pc' = "cleaned"
    /\ UNCHANGED <<input, structure_info, endorsements, call, ret>>

\* process_excel_file: structure_info = self.detect_excel_structure(df)
DetectStructure ==
    /\ pc = "cleaned"
    /\ structure_info' = detect_excel_structure_try(df, input.fault)
    /\ pc' = "detected"
    /\ UNCHANGED <<input, df, endorsements, call, ret>>

\* if structure_info['type'] == 'campo_combinations':
CampoBranch == structure_info.type = "campo_combinations"

\* else:
RecordBranch == ~CampoBranch

\* process_excel_file: the campo_combinations branch
ProcessCampoCombinations ==
    /\ pc = "detected"
    /\ CampoBranch
    /\ endorsements' = process_campo_combinations_structure_try(df, structure_info, input.fault)
    /\ pc' = "done"
    /\ UNCHANGED <<input, df, structure_info, call, ret>>

\* process_excel_file: the else branch
ProcessRecordBased ==
    /\ pc = "detected"
    /\ RecordBranch
    /\ endorsements' = process_record_based_table_try(df, input.fault)
    /\ pc' = "done"
    /\ UNCHANGED <<input, df, structure_info, call, ret>>

\* process_json_file on the decoded document
ProcessJsonFile ==
    /\ pc = "start"
    /\ input.kind = "json"
    /\ endorsements' = process_json_file(input.json_data)
    /\ pc' = "done"
    /\ UNCHANGED <<input, df, structure_info, call, ret>>

Next ==
    \/ CleanSheet
    \/ DetectStructure
    \/ ProcessCampoCombinations
    \/ ProcessRecordBased
    \/ ProcessJsonFile

Spec == Init /\ [][Next]_vars

-----------------------------------------------------------------------------
(* The file specification: process_excel_file and process_json_file from the *)
(* decoding of the file on, with the exceptions that can be raised on the way *)

\* Largest number of loop iterations completed before an exception
MaxFaultStep == 2

\* Where an exception is raised, if any
Faults ==
    {NoFault}
    \cup { [at |-> a, done |-> k] : a \in {"detect", "extract"}, k \in 0..MaxFaultStep }

\* Sheets whose data columns are filled on every row
FullSheets ==
    UNION { UNION {
        { MakeSheet(LabelPools[p], n, w, [c \in 2..(w - 1) |-> 1..n]) : w \in 2..MaxCols }
        : n \in 0..PoolRows(LabelPools[p]) }
        : p \in 1..Len(LabelPools) }

FileSheets == FullSheets \cup NarrowSheets \cup {ScenarioSheet, WideSheet, OddCellsSheet}

FileDocs ==
    { ListV(l) : l \in DocLists }
    \cup { DictV(<<[k |-> CombinationsKey, v |-> ListV(l)]>>) : l \in DocLists }
    \cup { StrV(<<"x">>) }

\* The files handed to the processor: spreadsheets pd.read_excel decodes, JSON
\* files json.load decodes, and files of both kinds that cannot be decoded
FileInputs ==
    { [kind |-> "sheet", readable |-> TRUE, sheet |-> s, fault |-> f] :
        s \in FileSheets, f \in Faults }
    \cup { [kind |-> "json", readable |-> TRUE, json_data |-> d] : d \in FileDocs }
    \cup { [kind |-> k, readable |-> FALSE] : k \in {"sheet", "json"} }

InitFile ==
    /\ pc = "open"
    /\ input \in FileInputs
    /\ df = Nothing
    /\ structure_info = Nothing
    /\ endorsements = Nothing
    /\ call = Nothing
    /\ ret = Nothing

\* process_json_file answering a file it cannot decode with an empty result.
LoadJsonFile_EmptyResult ==
    /\ pc = "open"
    /\ input.kind = "json"
    /\ IF input.readable
       THEN pc' = "start" /\ UNCHANGED endorsements
       ELSE pc' = "done" /\ endorsements' = <<>>
    /\ UNCHANGED <<input, df, structure_info, call, ret>>

\* process_excel_file: pd.read_excel(file_path, sheet_name=None, header=None);
\* its exception reaches the handler, which raises to the caller
ReadExcelFile ==
    /\ pc = "open"
    /\ input.kind = "sheet"
    /\ pc' = IF input.readable THEN "start" ELSE "raised"
    /\ UNCHANGED <<input, df, structure_info, endorsements, call, ret>>

\* process_json_file: json.load(f); its exception reaches the handler, which
\* raises to the caller
LoadJsonFile ==
    /\ pc = "open"
    /\ input.kind = "json"
    /\ pc' = IF input.readable THEN "start" ELSE "raised"
    /\ UNCHANGED <<input, df, structure_info, endorsements, call, ret>>

NextFile ==
    \/ ReadExcelFile
    \/ LoadJsonFile
    \/ CleanSheet
    \/ DetectStructure
    \/ ProcessCampoCombinations
    \/ ProcessRecordBased
    \/ ProcessJsonFile

SpecFile == InitFile /\ [][NextFile]_vars

-----------------------------------------------------------------------------
(* The upload specification: one request to /api/files/upload or to           *)
(* /api/files/upload-json, on an empty endorsements table.  call holds the    *)
(* endorsement_records the route creates one after the other, endorsements    *)
(* the rows committed to the table, ret the response.                         *)

\* A matrix sheet of three combinations: the second has "None" as policy
\* number, the third "null" as type
PlaceholderSheet ==
    [ncols |-> 5,
     index |-> <<0, 1, 2>>,
     rows |-> <<
        <<NaN, StrV(<<"N","ú","m","e","r","o"," ","d","e"," ","p","ó","l","i","z","a">>), StrV(<<"1","6","1","8","8","0","5">>), StrV(<<"N","o","n","e">>), StrV(<<"1","6","1","8","8","0","5">>)>>,
        <<NaN, StrV(<<"T","i","p","o"," ","d","e"," ","e","n","d","o","s","o">>), StrV(<<"M","a","t","e","r","n","i","d","a","d">>), StrV(<<"N","a","t","a","l","i","d","a","d">>), StrV(<<"n","u","l","l">>)>>,
        <<NaN, StrV(<<"V","e","r","s","i","ó","n"," ","d","e","l"," ","e","n","d","o","s","o">>), StrV(<<"9","0","4">>), StrV(<<"9","0","5">>), StrV(<<"9","0","6">>)>>>>]

\* A matrix sheet of two combinations: the first has 3 values but neither policy
\* number nor type, the second has all 5
GapSheet ==
    [ncols |-> 4,
     index |-> <<0, 1, 2, 3, 4>>,
     rows |-> <<
        <<NaN, StrV(<<"N","ú","m","e","r","o"," ","d","e"," ","p","ó","l","i","z","a">>), NaN, StrV(<<"1","6","1","8","8","0","5">>)>>,
        <<NaN, StrV(<<"T","i","p","o"," ","d","e"," ","e","n","d","o","s","o">>), NaN, StrV(<<"M","a","t","e","r","n","i","d","a","d">>)>>,
        <<NaN, StrV(<<"R","a","m","o">>), StrV(<<"V","i","d","a">>), StrV(<<"V","i","d","a">>)>>,
        <<NaN, StrV(<<"A","ñ","o">>), IntV(2024), IntV(2025)>>,
        <<NaN, StrV(<<"P","l","a","n">>), StrV(<<"A">>), StrV(<<"B">>)>>>>]

\* JSON documents with placeholder values: "nan" as policy number; a list whose
\* second object has an empty type; labels spelled with accents
PlaceholderDocs ==
    { DictV(<<[k |-> <<"P","o","l","i","z","a">>, v |-> StrV(<<"n","a","n">>)],
              [k |-> <<"T","i","p","o"," ","d","e"," ","e","n","d","o","s","o">>, v |-> StrV(<<"M","a","t","e","r","n","i","d","a","d">>)]>>),
      ListV(<<DictV(<<[k |-> <<"P","o","l","i","z","a">>, v |-> StrV(<<"P","O","L","-","1","6","1","8","8","0","5","-","A">>)],
                      [k |-> <<"T","i","p","o"," ","d","e"," ","e","n","d","o","s","o">>, v |-> StrV(<<"M","a","t","e","r","n","i","d","a","d">>)]>>),
              DictV(<<[k |-> <<"P","o","l","i","z","a">>, v |-> StrV(<<"P","O","L","-","1","6","1","8","8","0","5","-","A">>)],
                      [k |-> <<"T","i","p","o"," ","d","e"," ","e","n","d","o","s","o">>, v |-> StrV(<<>>)]>>)>>),
      DictV(<<[k |-> <<"P","ó","l","i","z","a">>, v |-> StrV(<<"P","O","L","-","1","6","1","8","8","0","5","-","A">>)],
              [k |-> <<"V","e","r","s","i","ó","n">>, v |-> StrV(<<"9","0","4">>)]>>) }

\* The uploaded files: decoded spreadsheets and JSON files, a file that cannot
\* be decoded, a file validate_file rejects
UploadFiles ==
    { [kind |-> "sheet", valid |-> TRUE, readable |-> TRUE, sheet |-> s] :
        s \in FileSheets \cup {PlaceholderSheet, GapSheet} }
    \cup { [kind |-> "json", valid |-> TRUE, readable |-> TRUE, json_data |-> d] :
             d \in JsonDocs \cup PlaceholderDocs }
    \cup { [kind |-> k, valid |-> TRUE, readable |-> FALSE] : k \in {"sheet", "json"} }
    \cup { [kind |-> "other", valid |-> FALSE, readable |-> FALSE] }

\* The posted JSON texts: the documents json.loads decodes, and invalid text
JsonTexts ==
    { [parses |-> TRUE, json_data |-> d] : d \in JsonDocs \cup PlaceholderDocs }
    \cup { [parses |-> FALSE] }

InitUpload ==
    /\ pc = "request"
    /\ input \in { [route |-> "upload_file", file |-> f] : f \in UploadFiles }
                 \cup { [route |-> "upload_json_text", json_text |-> t] : t \in JsonTexts }
    /\ ret = Nothing
    /\ df = Nothing
    /\ structure_info = Nothing
    /\ endorsements = <<>>
    /\ call = <<>>

\* POST /api/files/upload, up to the loop that creates the endorsements
UploadFile ==
    /\ pc = "request"
    /\ input.route = "upload_file"
    /\ LET response == upload_file(input.file)
       IN  IF response.status = 200
           THEN /\ call' = response.endorsements
                /\ pc' = "storing"
                /\ ret' = ret
           ELSE /\ call' = call
                /\ pc' = "responded"
                /\ ret' = response
    /\ UNCHANGED <<input, df, structure_info, endorsements>>

\* POST /api/files/upload-json, up to the loop that creates the endorsements
UploadJsonText ==
    /\ pc = "request"
    /\ input.route = "upload_json_text"
    /\ LET response == upload_json_text(input.json_text)
       IN  IF response.status = 200
           THEN /\ call' = response.endorsements
                /\ pc' = "storing"
                /\ ret' = ret
           ELSE /\ call' = call
                /\ pc' = "responded"
                /\ ret' = response
    /\ UNCHANGED <<input, df, structure_info, endorsements>>

\* endorsement_model.create_endorsement: INSERT and conn.commit() of the next record
CreateEndorsement ==
    /\ pc = "storing"
    /\ Len(endorsements) < Len(call)
    /\ ~IntegrityError(call[Len(endorsements) + 1])
    /\ endorsements' = Append(endorsements, call[Len(endorsements) + 1])
    /\ UNCHANGED <<pc, input, df, structure_info, call, ret>>

\* create_endorsement raises (a NOT NULL constraint, or any other sqlite3
\* error); the route's handler answers 500
CreateEndorsementRaises ==
    /\ pc = "storing"
    /\ Len(endorsements) < Len(call)
    /\ ret' = [status |-> 500]
    /\ pc' = "responded"
    /\ UNCHANGED <<input, df, structure_info, endorsements, call>>

\* return {"success": True, ...} with the created endorsements
UploadResponds ==
    /\ pc = "storing"
    /\ Len(endorsements) = Len(call)
    /\ ret' = [status |-> 200, endorsements |-> endorsements]
    /\ pc' = "responded"
    /\ UNCHANGED <<input, df, structure_info, endorsements, call>>

NextUpload ==
    \/ UploadFile
    \/ UploadJsonText
    \/ CreateEndorsement
    \/ CreateEndorsementRaises
    \/ UploadResponds

SpecUpload == InitUpload /\ [][NextUpload]_vars

-----------------------------------------------------------------------------
(* The endorsement routes: authenticated requests to create, upload, update,  *)
(* bulk-update and delete endorsements, one after the other.  endorsements    *)
(* holds the rows of the table (id and status) and the last AUTOINCREMENT id, *)
(* call the last request, ret the status code of its response.                *)

\* The status values the bulk route accepts and /api/search/status-options lists
StatusOptions == {"Approved", "Rejected", "In Review"}

\* The status values a request body can carry: the options, another text, the
\* empty text
RequestStatuses == StatusOptions \cup {"Done", ""}

\* A request body without status (EndorsementUpdate.status is None, request_data
\* has no 'status')
NoStatus == "<None>"

\* Largest number of rows ever inserted
MaxEndorsements == 2

\* The ids a request can name
RequestIds == 1..(MaxEndorsements + 1)

\* get_endorsement_by_id(endorsement_id) finds a row
Exists(table, endorsement_id) ==
    \E i \in 1..Len(table.rows) : table.rows[i].id = endorsement_id

\* INSERT INTO endorsements: a row with the next AUTOINCREMENT id
InsertRow(table, new_status) ==
    [rows |-> Append(table.rows, [id |-> table.lastrowid + 1, status |-> new_status]),
     lastrowid |-> table.lastrowid + 1]

\* UPDATE endorsements SET status = ? WHERE id = ?
UpdateStatus(table, ids, new_status) ==
    [table EXCEPT !.rows =
        [i \in 1..Len(table.rows) |->
            IF table.rows[i].id \in ids
            THEN [table.rows[i] EXCEPT !.status = new_status]
            ELSE table.rows[i]]]

\* DELETE FROM endorsements WHERE id = ?
DeleteRow(table, endorsement_id) ==
    [table EXCEPT !.rows = SelectSeq(table.rows, LAMBDA row : row.id # endorsement_id)]

InitCrud ==
    /\ pc = "idle"
    /\ endorsements = [rows |-> <<>>, lastrowid |-> 0]
    /\ call = Nothing
    /\ ret = Nothing
    /\ input = Nothing
    /\ df = Nothing
    /\ structure_info = Nothing

\* POST /api/endorsements: EndorsementCreate.status is any str, 'In Review' by default
PostEndorsement ==
    /\ endorsements.lastrowid < MaxEndorsements
    /\ \E new_status \in RequestStatuses :
          /\ call' = [route |-> "create_endorsement", status |-> new_status]
          /\ endorsements' = InsertRow(endorsements, new_status)
    /\ ret' = 200
    /\ UNCHANGED <<pc, input, df, structure_info>>

\* upload_file and upload_json_text: every record is created with 'status': 'In Review'
UploadEndorsement ==
    /\ endorsements.lastrowid < MaxEndorsements
    /\ call' = [route |-> "upload"]
    /\ endorsements' = InsertRow(endorsements, "In Review")
    /\ ret' = 200
    /\ UNCHANGED <<pc, input, df, structure_info>>

\* PUT /api/endorsements/{endorsement_id} with a body that sets status or leaves
\* it out (NoStatus): 404 for an unknown id, else every field that is not None
\* goes into the UPDATE
PutEndorsement ==
    /\ \E endorsement_id \in RequestIds, new_status \in RequestStatuses \cup {NoStatus} :
          /\ call' = [route |-> "update_endorsement", id |-> endorsement_id, status |-> new_status]
          /\ IF ~Exists(endorsements, endorsement_id)
             THEN ret' = 404 /\ endorsements' = endorsements
             ELSE /\ ret' = 200
                  /\ endorsements' =
                        IF new_status = NoStatus THEN endorsements
                        ELSE UpdateStatus(endorsements, {endorsement_id}, new_status)
    /\ UNCHANGED <<pc, input, df, structure_info>>

\* PUT /api/endorsements/bulk/status: 400 without ids or status and for a
\* status outside the options, else the existing rows among the ids are updated
BulkUpdateStatus ==
    /\ \E endorsement_ids \in SUBSET RequestIds, new_status \in RequestStatuses \cup {NoStatus} :
          /\ call' = [route |-> "bulk_update_status", ids |-> endorsement_ids, status |-> new_status]
          /\ IF endorsement_ids = {} \/ new_status = NoStatus \/ new_status = ""
             THEN ret' = 400 /\ endorsements' = endorsements
             ELSE IF new_status \notin StatusOptions
                  THEN ret' = 400 /\ endorsements' = endorsements
                  ELSE /\ ret' = 200
                       /\ endorsements' = UpdateStatus(endorsements, endorsement_ids, new_status)
    /\ UNCHANGED <<pc, input, df, structure_info>>

\* DELETE /api/endorsements/{endorsement_id}
DeleteEndorsement ==
    /\ \E endorsement_id \in RequestIds :
          /\ call' = [route |-> "delete_endorsement", id |-> endorsement_id]
          /\ IF ~Exists(endorsements, endorsement_id)
             THEN ret' = 404 /\ endorsements' = endorsements
             ELSE ret' = 200 /\ endorsements' = DeleteRow(endorsements, endorsement_id)
    /\ UNCHANGED <<pc, input, df, structure_info>>

NextCrud ==
    \/ PostEndorsement
    \/ UploadEndorsement
    \/ PutEndorsement
    \/ BulkUpdateStatus
    \/ DeleteEndorsement

SpecCrud == InitCrud /\ [][NextCrud]_vars

-----------------------------------------------------------------------------
(* The two-call specification: two extraction calls on the global instance    *)
(* file_processor run in two threads.  input is what the threads can both     *)
(* reach: the instance's core_field_mappings and the argument objects; call   *)
(* holds what each call was asked, df the locals of each normalizer loop, ret *)
(* what each call returned.  The normalizer advances one mapping entry per    *)
(* step; the other four functions read only their argument and locals and     *)
(* take one step.                                                             *)

Threads == {1, 2}

\* The raw field maps handed to the normalizer
ParMaps ==
    { <<[k |-> <<"P","o","l","i","z","a">>, v |-> StrV(<<"P","O","L","-","1","6","1","8","8","0","5","-","A">>)],
        [k |-> <<"V","e","r","s","i","ó","n"," ","d","e","l"," ","e","n","d","o","s","o">>, v |-> StrV(<<"9","0","4">>)]>>,
      <<[k |-> <<"N","o","m","b","r","e">>, v |-> StrV(<<"M","a","t","e","r","n","i","d","a","d">>)],
        [k |-> <<"E","n","d","o","s","o">>, v |-> StrV(<<"N","a","t","a","l","i","d","a","d">>)]>>,
      <<[k |-> <<"R","a","m","o">>, v |-> StrV(<<"V","i","d","a">>)]>> }

\* The extraction calls a thread can make
ExtractionCalls ==
    { [fn |-> f, arg |-> FillNa(DropEmptyRows(s))] :
        f \in {"detect_excel_structure", "process_record_based_table"},
        s \in {ScenarioSheet, WideSheet} }
    \cup { [fn |-> "process_campo_combinations_structure", arg |-> FillNa(DropEmptyRows(s))] :
             s \in {ScenarioSheet, OddCellsSheet} }
    \cup { [fn |-> "extract_core_fields_from_combination", arg |-> m] : m \in ParMaps }
    \cup { [fn |-> "flatten_dict", arg |-> PickItems(c, 1)] : c \in {{1, 2}, {1, 3, 7}} }

\* What the call returns when it runs alone
RunAlone(fn, arg) ==
    CASE fn = "detect_excel_structure" -> detect_excel_structure(arg)
      [] fn = "process_campo_combinations_structure" ->
             process_campo_combinations_structure(arg, detect_excel_structure(arg))
      [] fn = "process_record_based_table" -> process_record_based_table(arg)
      [] fn = "extract_core_fields_from_combination" ->
             extract_core_fields_from_combination(arg)
      [] fn = "flatten_dict" -> flatten_dict(arg, <<>>, <<"_">>)

InitPar ==
    /\ call \in [Threads -> ExtractionCalls]
    /\ input = [core_field_mappings |-> core_field_mappings,
                args |-> [t \in Threads |-> call[t].arg]]
    /\ pc = [t \in Threads |-> "call"]
    /\ df = [t \in Threads |-> Nothing]
    /\ ret = [t \in Threads |-> Nothing]
    /\ structure_info = Nothing
    /\ endorsements = Nothing

\* detect_excel_structure, the two table extractors and flatten_dict
RunCall(t) ==
    /\ pc[t] = "call"
    /\ call[t].fn # "extract_core_fields_from_combination"
    /\ ret' = [ret EXCEPT ![t] = RunAlone(call[t].fn, input.args[t])]
    /\ pc' = [pc EXCEPT ![t] = "returned"]
    /\ UNCHANGED <<input, df, structure_info, endorsements, call>>

\* extract_core_fields_from_combination: core_fields = {}
EnterMappingLoop(t) ==
    /\ pc[t] = "call"
    /\ call[t].fn = "extract_core_fields_from_combination"
    /\ df' = [df EXCEPT ![t] = [i |-> 1, core_fields |-> <<>>]]
    /\ pc' = [pc EXCEPT ![t] = "loop"]
    /\ UNCHANGED <<input, ret, structure_info, endorsements, call>>

\* The loop step that removes the label it matched from the raw field map.
MappingLoopStep_PopsLabel(t) ==
    /\ pc[t] = "loop"
    /\ df[t].i <= Len(input.core_field_mappings)
    /\ LET exact == ExactMatchIndex(input.args[t], input.core_field_mappings[df[t].i].k)
       IN  input' = [input EXCEPT !.args[t] =
                        IF exact = 0 THEN @
                        ELSE SubSeq(@, 1, exact - 1) \o SubSeq(@, exact + 1, Len(@))]
    /\ df' = [df EXCEPT ![t] =
                 [i |-> df[t].i + 1,
                  core_fields |-> MappingStep(input.core_field_mappings[df[t].i],
                                              df[t].core_fields, input.args[t])]]
    /\ UNCHANGED <<pc, ret, structure_info, endorsements, call>>

\* One pass of the loop over self.core_field_mappings.items()
MappingLoopStep(t) ==
    /\ pc[t] = "loop"
    /\ df[t].i <= Len(input.core_field_mappings)
    /\ df' = [df EXCEPT ![t] =
                 [i |-> df[t].i + 1,
                  core_fields |-> MappingStep(input.core_field_mappings[df[t].i],
                                              df[t].core_fields, input.args[t])]]
    /\ UNCHANGED <<input, pc, ret, structure_info, endorsements, call>>

\* return core_fields
ReturnCoreFields(t) ==
    /\ pc[t] = "loop"
    /\ df[t].i > Len(input.core_field_mappings)
    /\ ret' = [ret EXCEPT ![t] = df[t].core_fields]
    /\ pc' = [pc EXCEPT ![t] = "returned"]
    /\ UNCHANGED <<input, df, structure_info, endorsements, call>>

NextPar ==
    \E t \in Threads :
        \/ RunCall(t)
        \/ EnterMappingLoop(t)
        \/ MappingLoopStep(t)
        \/ ReturnCoreFields(t)

SpecPar == InitPar /\ [][NextPar]_vars

-----------------------------------------------------------------------------
(* Sessions: login and logout run on the event loop, one at a time; the       *)
(* dependency get_current_user is a plain function, run in worker threads,    *)
(* and is modelled statement by statement for two requests at once.           *)
(* structure_info holds active_sessions (token -> expires_at), df the clock   *)
(* in hours, call the cookie and the locals of each request, ret the last     *)
(* response of each thread.  input is the history of the run: the tokens      *)
(* issued with their expiry, and for each token removed the requests that     *)
(* were past their membership test at that moment.                            *)

\* timedelta(hours=24)
SessionHours == 24

\* The clock advances in steps of this many hours, up to MaxClock
TickHours == 12
MaxClock == 36

\* Largest number of successful logins
MaxLogins == 2

\* A request without session_token cookie carries token 0
NoCookie == 0

\* The session_token cookies a request can carry: none, or the text of any
\* token a login has issued or will issue
Cookies == 0..MaxLogins

\* del active_sessions[session_token]
Without(sessions, session_token) ==
    [k \in DOMAIN sessions \ {session_token} |-> sessions[k]]

\* The requests that have passed the membership test with this token
InFlight(session_token) ==
    { t \in Threads : pc[t] # "idle" /\ call[t].session_token = session_token }

\* The history after session_token was removed from active_sessions
Removed(history, session_token) ==
    [history EXCEPT !.removed =
        [k \in DOMAIN @ \cup {session_token} |->
            IF k = session_token /\ k \notin DOMAIN @ THEN InFlight(session_token)
            ELSE @[k]]]

InitAuth ==
    /\ structure_info = <<>>
    /\ df = 0
    /\ pc = [t \in Threads |-> "idle"]
    /\ call = [t \in Threads |-> [session_token |-> NoCookie]]
    /\ ret = [t \in Threads |-> Nothing]
    /\ input = [issued |-> <<>>, removed |-> <<>>]
    /\ endorsements = Nothing

\* Time passes
Tick ==
    /\ df + TickHours <= MaxClock
    /\ df' = df + TickHours
    /\ UNCHANGED <<pc, input, structure_info, endorsements, call, ret>>

\* POST /api/auth/login with valid credentials: a fresh uuid4 token, valid 24 hours
Login ==
    /\ Len(input.issued) < MaxLogins
    /\ LET session_token == Len(input.issued) + 1
       IN  /\ structure_info' = structure_info @@ (session_token :> (df + SessionHours))
           /\ input' = [input EXCEPT !.issued = Append(@, df + SessionHours)]
    /\ UNCHANGED <<pc, df, endorsements, call, ret>>

\* POST /api/auth/login with wrong credentials: success=False, no session
LoginRefused ==
    /\ Len(input.issued) < MaxLogins
    /\ UNCHANGED vars

\* The logout that answers success and leaves the session in place.
Logout_KeepsSession ==
    \E session_token \in Cookies :
        /\ session_token # NoCookie
        /\ session_token \in DOMAIN structure_info
        /\ input' = Removed(input, session_token)
        /\ UNCHANGED <<pc, df, structure_info, endorsements, call, ret>>

\* POST /api/auth/logout: the cookie's session is deleted if it is there
Logout ==
    \E session_token \in Cookies :
        /\ session_token # NoCookie
        /\ session_token \in DOMAIN structure_info
        /\ structure_info' = Without(structure_info, session_token)
        /\ input' = Removed(input, session_token)
        /\ UNCHANGED <<pc, df, endorsements, call, ret>>

\* get_current_user: if not session_token or session_token not in active_sessions
CheckSession(t) ==
    /\ pc[t] = "idle"
    /\ \E session_token \in Cookies :
          /\ call' = [call EXCEPT ![t] = [session_token |-> session_token]]
          /\ IF session_token = NoCookie \/ session_token \notin DOMAIN structure_info
             THEN /\ ret' = [ret EXCEPT ![t] = [status |-> 401, detail |-> "Not authenticated"]]
                  /\ pc' = pc
             ELSE /\ ret' = [ret EXCEPT ![t] = Nothing]
                  /\ pc' = [pc EXCEPT ![t] = "checked"]
    /\ UNCHANGED <<input, df, structure_info, endorsements>>

\* session_data = active_sessions[session_token]; a KeyError is answered 500
ReadSession(t) ==
    /\ pc[t] = "checked"
    /\ IF call[t].session_token \in DOMAIN structure_info
       THEN /\ call' = [call EXCEPT ![t] =
                           [session_token |-> call[t].session_token,
                            expires_at |-> structure_info[call[t].session_token]]]
            /\ pc' = [pc EXCEPT ![t] = "read"]
            /\ ret' = ret
       ELSE /\ ret' = [ret EXCEPT ![t] = [status |-> 500, detail |-> "KeyError"]]
            /\ pc' = [pc EXCEPT ![t] = "idle"]
            /\ call' = call
    /\ UNCHANGED <<input, df, structure_info, endorsements>>

\* if datetime.now() > session_data["expires_at"]: del ...; raise 401, else
\* return session_data["user"]
DecideSession(t) ==
    /\ pc[t] = "read"
    /\ LET session_token == call[t].session_token
       IN  IF df > call[t].expires_at
           THEN IF session_token \in DOMAIN structure_info
                THEN /\ structure_info' = Without(structure_info, session_token)
                     /\ input' = Removed(input, session_token)
                     /\ ret' = [ret EXCEPT ![t] = [status |-> 401, detail |-> "Session expired"]]
                ELSE /\ ret' = [ret EXCEPT ![t] = [status |-> 500, detail |-> "KeyError"]]
                     /\ UNCHANGED <<structure_info, input>>
           ELSE /\ ret' = [ret EXCEPT ![t] = [status |-> 200, detail |-> "user"]]
                /\ UNCHANGED <<structure_info, input>>
    /\ pc' = [pc EXCEPT ![t] = "idle"]
    /\ UNCHANGED <<df, endorsements, call>>

NextAuth ==
    \/ Tick
    \/ Login
    \/ LoginRefused
    \/ Logout
    \/ \E t \in Threads : CheckSession(t) \/ ReadSession(t) \/ DecideSession(t)

SpecAuth == InitAuth /\ [][NextAuth]_vars

-----------------------------------------------------------------------------
(* Properties of the normalizer and the value cleaner, checked under SpecFn *)

Returned(fn) == pc = "returned" /\ call.fn = fn

\* The indices of the items of combination_data whose label, lowercased and
\* trimmed, equals a configured variant of canonical field F.
ExactLabels(combination_data, F) ==
    { i \in 1..Len(combination_data) :
        \E j \in 1..Len(core_field_mappings) :
            /\ core_field_mappings[j].v = F
            /\ Strip(Lower(combination_data[i].k)) = core_field_mappings[j].k }

\* C2: when some label of the raw field map exactly matches (lowercased, trimmed)
\* a variant of canonical field F, the core fields hold under F the cleaned value
\* of an exactly matching label, whatever the values and the other labels are.
C2_ExactMatchWins ==
    Returned("extract_core_fields_from_combination") =>
        \A F \in CoreFieldNames :
            ExactLabels(call.combination_data, F) # {} =>
                /\ HasKey(ret, F)
                /\ \E i \in ExactLabels(call.combination_data, F) :
                       Get(ret, F) = process_field_value(call.combination_data[i].v, F)

\* C2 witness: a label matching policy_number by key word only comes first, with
\* a placeholder value, and the padded upper-case variant " POLIZA " still decides.
C2_Witness ==
    /\ Returned("extract_core_fields_from_combination")
    /\ call.combination_data =
           <<[k |-> <<"P","ó","l","i","z","a"," ","r","e","f">>, v |-> StrV(<<"n","a","n">>)],
             [k |-> <<" ","P","O","L","I","Z","A"," ">>, v |-> StrV(<<"P","O","L","-","1","6","1","8","8","0","5","-","A">>)]>>
    /\ Get(ret, "policy_number") = StrV(<<"1","6","1","8","8","0","5">>)

\* A placeholder token of the specification: "", "nan", "None", "null" in any letter case.
IsPlaceholderAnyCase(s) ==
    Lower(Strip(s)) \in {<<>>, <<"n","a","n">>, <<"n","o","n","e">>, <<"n","u","l","l">>}

\* run is the first maximal run of decimal digits of s.
IsFirstDigitRun(run, s) ==
    \E i \in 1..Len(s) : \E j \in i..Len(s) :
        /\ run = SubSeq(s, i, j)
        /\ \A k \in i..j : IsDigit(s[k])
        /\ \A k \in 1..(i - 1) : ~IsDigit(s[k])
        /\ j = Len(s) \/ ~IsDigit(s[j + 1])

\* C3: for a policy_number value (a string) that is not a placeholder,
\* process_field_value returns the first maximal run of decimal digits of the
\* trimmed value when it has a digit, and the trimmed value itself otherwise.
C3_PolicyNumberDigits ==
    ( /\ Returned("process_field_value")
      /\ call.field_type = "policy_number"
      /\ call.field_value.t = "str"
      /\ ~IsPlaceholderAnyCase(call.field_value.s) ) =>
        LET trimmed == Strip(call.field_value.s)
        IN  IF \E k \in 1..Len(trimmed) : IsDigit(trimmed[k])
            THEN ret.t = "str" /\ IsFirstDigitRun(ret.s, trimmed)
            ELSE ret = StrV(trimmed)

\* C3 witness: "POL-1618805-A" has been cleaned to "1618805".
C3_Witness ==
    /\ Returned("process_field_value")
    /\ call.field_type = "policy_number"
    /\ call.field_value = StrV(<<"P","O","L","-","1","6","1","8","8","0","5","-","A">>)
    /\ ret = StrV(<<"1","6","1","8","8","0","5">>)

\* C4: a value equal to a placeholder token in any letter case resolves to null,
\* for every canonical field.
C4_PlaceholderAnyCaseIsNull ==
    ( /\ Returned("process_field_value")
      /\ call.field_value.t = "str"
      /\ IsPlaceholderAnyCase(call.field_value.s) ) =>
        ret = None

\* The object {"a": {"b": "1"}, "c": [{"d": "2"}]}
FlattenExample == PickItems({1, 2}, 1)

\* The items of a dict as a set
ItemSet(d) == { d[i] : i \in 1..Len(d) }

\* C8: flatten_dict joins parent and child keys with "_" and expands a list whose
\* first element is an object into index-suffixed keys: every leaf of a nested
\* object of the input appears under parent_child, every leaf of the i-th object
\* of such a list under parent_i_child, and {"a": {"b": "1"}, "c": [{"d": "2"}]}
\* flattens to exactly {"a_b": "1", "c_0_d": "2"}.
C8_FlattenExample ==
    Returned("flatten_dict") =>
        /\ \A i \in 1..Len(call.data) :
              LET key == call.data[i].k
                  value == call.data[i].v
              IN  /\ value.t = "dict" =>
                        \A j \in 1..Len(value.items) :
                            HasKey(ret, key \o <<"_">> \o value.items[j].k)
                  /\ (value.t = "list" /\ value.elems # <<>> /\ value.elems[1].t = "dict") =>
                        \A n \in 1..Len(value.elems) :
                            \A j \in 1..Len(value.elems[n].items) :
                                HasKey(ret, key \o <<"_">> \o Decimal(n - 1) \o <<"_">>
                                                \o value.elems[n].items[j].k)
        /\ call.data = FlattenExample =>
              /\ Len(ret) = 2
              /\ ItemSet(ret) = { [k |-> <<"a","_","b">>, v |-> StrV(<<"1">>)],
                                  [k |-> <<"c","_","0","_","d">>, v |-> StrV(<<"2">>)] }

\* C8 witness: the example object has been flattened to two entries.
C8_Witness ==
    /\ Returned("flatten_dict")
    /\ call.data = FlattenExample
    /\ Len(ret) = 2
    /\ HasKey(ret, <<"c","_","0","_","d">>)

\* The indices of the labels that, lowercased and trimmed, contain a key word of F
KeyWordLabels(combination_data, F) ==
    { i \in 1..Len(combination_data) :
        \E w \in 1..Len(KeyWords(F)) :
            Contains(KeyWords(F)[w], Strip(Lower(combination_data[i].k))) }

\* The indices of the labels that contain a variant of F or are contained in one
SymmetricLabels(combination_data, F) ==
    { i \in 1..Len(combination_data) :
        \E j \in 1..Len(core_field_mappings) :
            /\ core_field_mappings[j].v = F
            /\ \/ Contains(core_field_mappings[j].k, Strip(Lower(combination_data[i].k)))
               \/ Contains(Strip(Lower(combination_data[i].k)), core_field_mappings[j].k) }

\* C19 as stated: without an exact hit, a label that contains a variant of F or
\* is contained in one (such as "pol" in "poliza") is routed to F.
C19_SymmetricContainment ==
    Returned("extract_core_fields_from_combination") =>
        \A F \in CoreFieldNames :
            ( /\ ExactLabels(call.combination_data, F) = {}
              /\ SymmetricLabels(call.combination_data, F) # {} ) =>
                HasKey(ret, F)

\* C19 amended: without an exact hit for F, the fallback is a one-way key-word
\* test: F takes the cleaned value of the first label, in map order, that
\* contains one of F's key words, and stays unset when no label does; a label
\* that is only a substring of a variant is not routed.
C19_KeyWordFallback ==
    Returned("extract_core_fields_from_combination") =>
        \A F \in CoreFieldNames :
            ExactLabels(call.combination_data, F) = {} =>
                LET hits == KeyWordLabels(call.combination_data, F)
                IN  IF hits = {} THEN ~HasKey(ret, F)
                    ELSE /\ HasKey(ret, F)
                         /\ Get(ret, F) =
                                process_field_value(
                                    call.combination_data[CHOOSE i \in hits : \A j \in hits : i <= j].v, F)

\* C19 witness: "pol" comes first and is passed over, "Póliza ref" gives the policy number.
C19_Witness ==
    /\ Returned("extract_core_fields_from_combination")
    /\ call.combination_data =
           <<[k |-> <<"p","o","l">>, v |-> StrV(<<"P","O","L","-","1","6","1","8","8","0","5","-","A">>)],
             [k |-> <<"P","ó","l","i","z","a"," ","r","e","f">>, v |-> StrV(<<" ","V","i","d","a"," ">>)]>>
    /\ Get(ret, "policy_number") = StrV(<<"V","i","d","a">>)

\* A value that flatten_dict descends into: an object, or a list whose first
\* element is an object
IsNested(value) ==
    \/ value.t = "dict"
    \/ value.t = "list" /\ value.elems # <<>> /\ value.elems[1].t = "dict"

RECURSIVE LeafValues(_)
\* The values at the leaves of a JSON value
LeafValues(value) ==
    IF value.t = "dict"
    THEN UNION { LeafValues(value.items[i].v) : i \in 1..Len(value.items) }
    ELSE IF IsNested(value)
         THEN UNION { LeafValues(value.elems[n]) : n \in 1..Len(value.elems) }
         ELSE {value}

\* C21 as stated: every value in the map returned by flatten_dict is a string.
C21_ValuesAreStrings ==
    Returned("flatten_dict") =>
        \A i \in 1..Len(ret) : ret[i].v.t = "str"

\* C21 amended: every value in the map returned by flatten_dict is a leaf value
\* of the input stored unchanged, type included; every top-level scalar or
\* list that is not a list of objects has its key in the result, and an input
\* without nested values is returned as it is.
C21_LeavesStoredAsIs ==
    Returned("flatten_dict") =>
        /\ \A i \in 1..Len(ret) : ret[i].v \in LeafValues(DictV(call.data))
        /\ \A i \in 1..Len(call.data) :
              ~IsNested(call.data[i].v) => HasKey(ret, call.data[i].k)
        /\ (\A i \in 1..Len(call.data) : ~IsNested(call.data[i].v)) => ret = call.data

\* C21 witness: next to a flattened object, the number 7 is stored as a number
\* and the list ["1", "2"] as a list.
C21_Witness ==
    /\ Returned("flatten_dict")
    /\ HasKey(ret, <<"a","_","b">>)
    /\ HasKey(ret, <<"P","l","a","n">>)
    /\ Get(ret, <<"P","l","a","n">>) = IntV(7)
    /\ HasKey(ret, <<"Z","o","n","a">>)
    /\ Get(ret, <<"Z","o","n","a">>) = ListV(<<StrV(<<"1">>), StrV(<<"2">>)>>)

RECURSIVE LeafCount(_, _)
\* The number of leaves of the first n values of a sequence of JSON values
LeafCount(values, n) ==
    IF n = 0 THEN 0
    ELSE LET value == values[n]
             here == IF value.t = "dict"
                     THEN LeafCount([i \in 1..Len(value.items) |-> value.items[i].v],
                                    Len(value.items))
                     ELSE IF IsNested(value)
                          THEN LeafCount(value.elems, Len(value.elems))
                          ELSE 1
         IN  LeafCount(values, n - 1) + here

\* C30: the map returned by flatten_dict has as many entries as the input has
\* leaves, so that no two leaf paths share a flattened key.
C30_NoLeafLost ==
    Returned("flatten_dict") =>
        Len(ret) = LeafCount(<<DictV(call.data)>>, 1)

\* The index of the label whose value the normalizer leaves under F, 0 when F
\* is not set: the label matched by the last variant of F with an exact match,
\* else the first label containing a key word of F
SourceLabel(combination_data, F) ==
    LET hit == { j \in 1..Len(core_field_mappings) :
                    /\ core_field_mappings[j].v = F
                    /\ ExactMatchIndex(combination_data, core_field_mappings[j].k) # 0 }
        words == KeyWordLabels(combination_data, F)
    IN  IF hit # {}
        THEN ExactMatchIndex(combination_data,
                 core_field_mappings[CHOOSE j \in hit : \A m \in hit : m <= j].k)
        ELSE IF words # {} THEN CHOOSE i \in words : \A m \in words : i <= m
             ELSE 0

\* C23: a single raw label populates at most one canonical core field: the
\* labels whose values the result holds under two different core fields are
\* different labels (a label that is an exact variant of endorsement_version
\* is not also the key-word source of endorsement_type).
C23_OneLabelOneField ==
    Returned("extract_core_fields_from_combination") =>
        \A F, G \in CoreFieldNames :
            LET f == SourceLabel(call.combination_data, F)
                g == SourceLabel(call.combination_data, G)
            IN  ( /\ F # G
                  /\ HasKey(ret, F) /\ f # 0
                  /\ Get(ret, F) = process_field_value(call.combination_data[f].v, F)
                  /\ HasKey(ret, G) /\ g # 0
                  /\ Get(ret, G) = process_field_value(call.combination_data[g].v, G) )
                => f # g

-----------------------------------------------------------------------------
(* Properties of detection and extraction, checked under Spec *)

\* A sheet has been classified
Detected == pc \in {"detected", "done"} /\ input.kind = "sheet"

\* A sheet classified as label-value matrix has been extracted
MatrixDone ==
    /\ pc = "done"
    /\ input.kind = "sheet"
    /\ structure_info.type = "campo_combinations"

\* The rows of column col_idx whose cell is non-empty
NonEmptyCells(frame, col_idx) ==
    { r \in 0..(NRows(frame) - 1) : HasValue(Cell(frame, r, col_idx)) }

\* The qualifying combination columns: index >= 2, at least 3 non-empty cells
QualifyingColumns(frame) ==
    { c \in 2..(frame.ncols - 1) : Cardinality(NonEmptyCells(frame, c)) >= 3 }

\* The 1-based position of column c among the qualifying columns, left to right
Position(frame, c) == Cardinality({ q \in QualifyingColumns(frame) : q <= c })

\* C1 as stated: a matrix table with K qualifying combination columns yields
\* exactly K records, numbered 1..K in column order without gaps.
C1_ExactlyKRecords ==
    MatrixDone =>
        /\ Len(endorsements) = Cardinality(QualifyingColumns(df))
        /\ \A i \in 1..Len(endorsements) : endorsements[i].combination_number = i

\* C1 amended: a matrix table with K qualifying combination columns yields at
\* most K records, in column order; the record taken from the i-th qualifying
\* column (left to right) carries combination_number i, so the numbers are
\* strictly increasing within 1..K and a qualifying column dropped by the
\* insufficient-data or viability filter leaves a gap.
C1_NumberedByQualifyingColumn ==
    MatrixDone =>
        /\ Len(endorsements) <= Cardinality(QualifyingColumns(df))
        /\ \A i \in 1..Len(endorsements) :
              /\ endorsements[i].column_index \in QualifyingColumns(df)
              /\ endorsements[i].combination_number
                     = Position(df, endorsements[i].column_index)
              /\ \A j \in (i + 1)..Len(endorsements) :
                     endorsements[i].combination_number < endorsements[j].combination_number

\* C1 witness: two qualifying columns, the first dropped, the only record numbered 2.
C1_Witness ==
    /\ MatrixDone
    /\ Cardinality(QualifyingColumns(df)) = 2
    /\ Len(endorsements) = 1
    /\ endorsements[1].combination_number = 2

C6_NoQualifyingColumn ==
    ( /\ Detected
      /\ structure_info.type = "campo_combinations"
      /\ \A c \in 2..(df.ncols - 1) : Cardinality(NonEmptyCells(df, c)) < 3 ) =>
        /\ structure_info.combination_count = 0
        /\ structure_info.combination_columns = <<>>
        /\ pc = "done" => endorsements = <<>>

\* C6 witness: a matrix table extracted, its fullest data column holding 2 values.
C6_Witness ==
    /\ MatrixDone
    /\ df.ncols >= 3
    /\ \E c \in 2..(df.ncols - 1) : Cardinality(NonEmptyCells(df, c)) = 2
    /\ \A c \in 2..(df.ncols - 1) : Cardinality(NonEmptyCells(df, c)) < 3
    /\ endorsements = <<>>

\* The labels of a raw field map
Keys(d) == { d[i].k : i \in 1..Len(d) }

\* C7: the scenario sheet (labels "Número de póliza", "Tipo de endoso", blank,
\* "Versión del endoso"; two combination columns) is detected as a matrix and
\* yields exactly two records, numbered 1 and 2, each with policy_number
\* "1618805", with types "Maternidad" and "Natalidad" and versions "904" and
\* "905"; the blank-label row adds no entry to either raw field map.
C7_Scenario ==
    (pc = "done" /\ input.kind = "sheet" /\ input.sheet = ScenarioSheet) =>
        /\ structure_info.type = "campo_combinations"
        /\ structure_info.combination_columns = <<2, 3>>
        /\ Len(endorsements) = 2
        /\ \A i \in 1..2 :
              /\ endorsements[i].combination_number = i
              /\ CoreGet(endorsements[i].core_fields, "policy_number") = StrV(<<"1","6","1","8","8","0","5">>)
              /\ CoreGet(endorsements[i].core_fields, "endorsement_type")
                     = IF i = 1 THEN StrV(<<"M","a","t","e","r","n","i","d","a","d">>) ELSE StrV(<<"N","a","t","a","l","i","d","a","d">>)
              /\ CoreGet(endorsements[i].core_fields, "endorsement_version")
                     = IF i = 1 THEN StrV(<<"9","0","4">>) ELSE StrV(<<"9","0","5">>)
              /\ Len(endorsements[i].all_fields) = 3
              /\ Keys(endorsements[i].all_fields) = { <<"N","ú","m","e","r","o"," ","d","e"," ","p","ó","l","i","z","a">>, <<"T","i","p","o"," ","d","e"," ","e","n","d","o","s","o">>, <<"V","e","r","s","i","ó","n"," ","d","e","l"," ","e","n","d","o","s","o">> }

\* C7 witness: the scenario sheet has been extracted into its two records.
C7_Witness ==
    /\ pc = "done"
    /\ input.kind = "sheet"
    /\ input.sheet = ScenarioSheet
    /\ Len(endorsements) = 2
    /\ CoreGet(endorsements[2].core_fields, "endorsement_type") = StrV(<<"N","a","t","a","l","i","d","a","d">>)

\* The raw field map process_json_combination hands to the normalizer
JsonRawMap(data) ==
    IF AnyDictValue(data.items) THEN flatten_dict(data.items, <<>>, <<"_">>) ELSE data.items

\* The candidate objects of a JSON document, in order
JsonCandidates(json_data) ==
    IF json_data.t = "dict"
    THEN IF HasKey(json_data.items, CombinationsKey)
         THEN Get(json_data.items, CombinationsKey).elems
         ELSE <<json_data>>
    ELSE IF json_data.t = "list" THEN json_data.elems ELSE <<>>

\* Row r carries a label that no later row repeats
LastLabelledRow(frame, r) ==
    /\ LabelledRow(frame, 1, r)
    /\ \A r2 \in (r + 1)..(NRows(frame) - 1) :
           LabelledRow(frame, 1, r2) => CleanField(frame, 1, r2) # CleanField(frame, 1, r)

\* The position of the row labelled idx
RowAt(frame, idx) == CHOOSE r \in 0..(NRows(frame) - 1) : frame.index[r + 1] = idx

\* C9: every record carries, unchanged in all_fields and spanish_fields, every
\* label/value pair of the raw map it was derived from, whether or not the label
\* matches a canonical field: the trimmed label and value of each labelled row of
\* its column (matrix), each non-empty cell of its row under its column name
\* (row-per-record), the whole flattened object (JSON).
C9_RawPassThrough ==
    pc = "done" =>
        \A i \in 1..Len(endorsements) :
            LET e == endorsements[i]
            IN  /\ e.spanish_fields = e.all_fields
                /\ e.extraction_method = "campo_combinations" =>
                      \A r \in 0..(NRows(df) - 1) :
                          (LastLabelledRow(df, r) /\ HasValue(Cell(df, r, e.column_index))) =>
                              /\ HasKey(e.all_fields, CleanField(df, 1, r))
                              /\ Get(e.all_fields, CleanField(df, 1, r))
                                     = StrV(Strip(PyStr(Cell(df, r, e.column_index))))
                /\ e.extraction_method = "record_based" =>
                      \A c \in 0..(df.ncols - 1) :
                          HasValue(Cell(df, RowAt(df, e.source_row), c)) =>
                              /\ HasKey(e.all_fields, Decimal(c))
                              /\ Get(e.all_fields, Decimal(c))
                                     = StrV(Strip(PyStr(Cell(df, RowAt(df, e.source_row), c))))
                /\ e.extraction_method = "json_combination" =>
                      e.all_fields
                          = JsonRawMap(JsonCandidates(input.json_data)[e.combination_number])

\* C9 witness: a matrix record whose raw map keeps the label "Ramo", which matches
\* no canonical field, with its trimmed value.
C9_Witness ==
    /\ MatrixDone
    /\ \E i \in 1..Len(endorsements) :
           /\ HasKey(endorsements[i].all_fields, <<"R","a","m","o">>)
           /\ Get(endorsements[i].all_fields, <<"R","a","m","o">>) = StrV(<<"V","i","d","a">>)
           /\ \A F \in CoreFieldNames :
                  CoreGet(endorsements[i].core_fields, F) # StrV(<<"V","i","d","a">>)

\* No core field of the raw map resolves to a non-null value
NoCoreField(raw_map) ==
    \A F \in CoreFieldNames :
        ~Truthy(CoreGet(extract_core_fields_from_combination(raw_map), F))

\* The raw map of the combination column at position i (1-based)
MatrixRawMap(frame, info, i) ==
    CombinationValues(frame, info.combination_columns[i], FieldNames(frame, 1, 0),
                      FieldRowMapping(frame, 1, 0, <<>>), 1,
                      [combination_data |-> <<>>, values_found |-> 0]).combination_data

\* C10: in every extraction path a candidate for which no core field resolved to
\* non-null but whose raw field count reaches the rescue threshold of 5 is still
\* emitted as a record.
C10_RescueOnEveryPath ==
    pc = "done" =>
        /\ (input.kind = "sheet" /\ structure_info.type = "campo_combinations") =>
              \A i \in 1..Len(structure_info.combination_columns) :
                  LET raw_map == MatrixRawMap(df, structure_info, i)
                  IN  (NoCoreField(raw_map) /\ Len(raw_map) >= 5) =>
                          \E n \in 1..Len(endorsements) :
                              endorsements[n].combination_number = i
        /\ (input.kind = "sheet" /\ structure_info.type # "campo_combinations") =>
              \A r \in 0..(NRows(df) - 1) :
                  LET raw_map == RowData(df, r, 0, <<>>)
                  IN  (NoCoreField(raw_map) /\ Len(raw_map) >= 5) =>
                          \E n \in 1..Len(endorsements) :
                              endorsements[n].source_row = df.index[r + 1]
        /\ input.kind = "json" =>
              \A i \in 1..Len(JsonCandidates(input.json_data)) :
                  LET data == JsonCandidates(input.json_data)[i]
                  IN  ( /\ data.t = "dict"
                        /\ NoCoreField(JsonRawMap(data))
                        /\ Len(JsonRawMap(data)) >= 5 ) =>
                          \E n \in 1..Len(endorsements) :
                              endorsements[n].combination_number = i

IndicatorInSample(frame) ==
    \E r \in 0..(NRows(frame) - 1) :
        /\ r < IndicatorSample
        /\ \E token \in {<<"c","a","m","p","o">>, <<"f","i","e","l","d">>, <<"p","a","r","a","m","e","t","e","r">>} :
               Contains(token, Lower(PyStr(Cell(frame, r, 1))))

\* The semantic patterns that occur in the sampled (first 15) cells of column 1
PatternsInSample(frame) ==
    { pattern \in {<<"n","ú","m","e","r","o">>, <<"n","o","m","b","r","e">>, <<"v","e","r","s","i","ó","n">>, <<"r","a","m","o">>, <<"a","ñ","o">>} :
        \E r \in 0..(NRows(frame) - 1) :
            /\ r < PatternSample
            /\ Contains(pattern, Lower(PyStr(Cell(frame, r, 1)))) }

\* C15: a table with at least 2 columns is a label-value matrix if an indicator
\* token occurs in the sampled cells of column 1 or at least 2 distinct semantic
\* patterns occur there; with no indicator and at most 1 pattern it is
\* row-per-record.
C15_DecisionRule ==
    (Detected /\ df.ncols >= 2) =>
        IF IndicatorInSample(df) \/ Cardinality(PatternsInSample(df)) >= 2
        THEN structure_info.type = "campo_combinations"
        ELSE structure_info.type = "record_based"

\* C15 witness: exactly one pattern in the sample and no indicator (on the tall
\* sheet the second pattern lies in row 16), classified row-per-record.
C15_Witness ==
    /\ Detected
    /\ NRows(df) = 16
    /\ ~IndicatorInSample(df)
    /\ Cardinality(PatternsInSample(df)) = 1
    /\ structure_info.type = "record_based"

\* C16 as stated: a table with 0 data rows classifies as 'unknown'.
C16_EmptyIsUnknown ==
    (Detected /\ NRows(df) = 0) => structure_info.type = "unknown"

\* C16 amended: a table with 0 data rows, whatever its column count, classifies
\* as 'record_based' (row-per-record) with no combination column.
C16_EmptyIsRecordBased ==
    (Detected /\ NRows(df) = 0) =>
        /\ structure_info.type = "record_based"
        /\ structure_info.combination_columns = <<>>
        /\ structure_info.combination_count = 0

\* C16 witness: a table of 3 columns and no row, classified row-per-record.
C16_Witness ==
    /\ pc = "detected"
    /\ NRows(df) = 0
    /\ df.ncols = 3
    /\ structure_info.type = "record_based"

\* C17: in every matrix record, each row with a non-empty label whose cell in
\* the record's column is non-empty and not a placeholder puts the trimmed
\* label into the raw field map, mapped to the trimmed value of a row carrying
\* that label, also when the label occurs in several rows; rows with a blank
\* label contribute no entry.
C17_EveryLabelledCell ==
    MatrixDone =>
        \A i \in 1..Len(endorsements) :
            LET e == endorsements[i]
                labelled == { r \in 0..(NRows(df) - 1) : LabelledRow(df, 1, r) }
            IN  /\ \A r \in labelled :
                      ( /\ HasValue(Cell(df, r, e.column_index))
                        /\ ~IsPlaceholderAnyCase(PyStr(Cell(df, r, e.column_index))) ) =>
                          /\ HasKey(e.all_fields, CleanField(df, 1, r))
                          /\ \E r2 \in labelled :
                                 /\ CleanField(df, 1, r2) = CleanField(df, 1, r)
                                 /\ Get(e.all_fields, CleanField(df, 1, r))
                                        = StrV(Strip(PyStr(Cell(df, r2, e.column_index))))
                /\ Keys(e.all_fields) \subseteq { CleanField(df, 1, r) : r \in labelled }

\* C18: every record of the matrix extractor has at least 3 entries in its raw
\* field map, also when the label column repeats labels.
C18_AtLeastThreeEntries ==
    MatrixDone =>
        \A i \in 1..Len(endorsements) : Len(endorsements[i].all_fields) >= 3

\* C20: the raw field map of every JSON record is flat: no value is an object
\* and no value is a list whose first element is an object, with or without a
\* nested-object sibling.
C20_JsonMapIsFlat ==
    (pc = "done" /\ input.kind = "json") =>
        \A i \in 1..Len(endorsements) :
            \A j \in 1..Len(endorsements[i].all_fields) :
                LET value == endorsements[i].all_fields[j].v
                IN  /\ value.t # "dict"
                    /\ ~(value.t = "list" /\ value.elems # <<>> /\ value.elems[1].t = "dict")

-----------------------------------------------------------------------------
(* Properties of error handling, checked under SpecFile *)

\* A decoded table is being processed
TableRun == input.kind = "sheet" /\ input.readable

\* What the extractor chosen for the classification returns when nothing fails
FullExtraction ==
    IF structure_info.type = "campo_combinations"
    THEN process_campo_combinations_structure(df, structure_info)
    ELSE process_record_based_table(df)

\* The records of a loop's first n iterations: for the matrix extractor the
\* combinations numbered up to n, for the row extractor the rows before position n
BuiltSoFar(n) ==
    IF structure_info.type = "campo_combinations"
    THEN SelectSeq(FullExtraction, LAMBDA e : e.combination_number <= n)
    ELSE SelectSeq(FullExtraction,
                   LAMBDA e : \E r \in 1..n : r <= NRows(df) /\ df.index[r] = e.source_row)

\* C11: for a decoded table, detection and both extractors never raise: a
\* failure inside the detector gives type 'unknown', a failure inside an
\* extractor gives the records built so far, every classification other than
\* label-value matrix goes to the row-per-record extractor, and a (possibly
\* empty) list of records is always returned.
C11_HeuristicsNeverRaise ==
    TableRun =>
        /\ pc # "raised"
        /\ pc \in {"detected", "done"} =>
              IF input.fault.at = "detect"
              THEN structure_info.type = "unknown"
              ELSE structure_info = detect_excel_structure(df)
        /\ pc = "detected" =>
              /\ CampoBranch \/ RecordBranch
              /\ structure_info.type # "campo_combinations" => RecordBranch
        /\ pc = "done" =>
              endorsements =
                  IF input.fault.at = "extract"
                  THEN BuiltSoFar(input.fault.done)
                  ELSE FullExtraction

\* C11 witness: the second combination of the scenario sheet fails, the first
\* record is returned.
C11_Witness ==
    /\ pc = "done"
    /\ TableRun
    /\ input.sheet = ScenarioSheet
    /\ input.fault = [at |-> "extract", done |-> 1]
    /\ Len(endorsements) = 1
    /\ endorsements[1].combination_number = 1

\* C12: a file that cannot be decoded makes process_excel_file and
\* process_json_file raise to the caller: no result object is returned and no
\* list of endorsements, partial or empty, exists for it; a decoded file never
\* ends that way.
C12_UndecodableRaises ==
    /\ ~input.readable =>
          /\ pc \in {"open", "raised"}
          /\ pc = "open" => ENABLED (ReadExcelFile \/ LoadJsonFile)
          /\ endorsements = Nothing
          /\ structure_info = Nothing
    /\ pc = "raised" => ~input.readable

\* C12 witness: an undecodable JSON file has raised.
C12_Witness ==
    /\ pc = "raised"
    /\ input.kind = "json"
    /\ ~input.readable
    /\ endorsements = Nothing

-----------------------------------------------------------------------------
(* Properties of the upload routes, checked under SpecUpload *)

\* The rows an upload has stored
Stored == IF pc = "responded" THEN endorsements ELSE <<>>

\* C13: every record persisted from one upload stores as total_combinations the
\* number of sibling records created from that upload.
C13_TotalIsSiblingCount ==
    \A i \in 1..Len(Stored) : Stored[i].total_combinations = Len(Stored)

\* C24: every record persisted by a file upload has
\* 1 <= combination_number <= total_combinations.
C24_NumberWithinTotal ==
    (pc = "responded" /\ input.route = "upload_file") =>
        \A i \in 1..Len(Stored) :
            /\ 1 <= Stored[i].combination_number
            /\ Stored[i].combination_number <= Stored[i].total_combinations

\* C25: a persisted record never carries the literal string "None" as
\* policy_number and never a null endorsement_type.
C25_NoNoneStored ==
    \A i \in 1..Len(Stored) :
        /\ Stored[i].policy_number # <<"N","o","n","e">>
        /\ Stored[i].endorsement_type # None

\* C26: an upload that ends with an error response leaves no record of that
\* upload in the table.
C26_AllOrNothing ==
    (pc = "responded" /\ ret.status # 200) => endorsements = <<>>

\* What two stored rows must share to be the same record
RecordOf(row) ==
    [policy_number |-> row.policy_number,
     endorsement_type |-> row.endorsement_type,
     endorsement_version |-> row.endorsement_version,
     combination_number |-> row.combination_number,
     json_data |-> row.json_data]

\* C27: a JSON document submitted as text creates the same records (core
\* fields, combination numbers, raw field maps) as the same document uploaded
\* as a .json file.
C27_EntryPointsAgree ==
    (pc = "storing" /\ input.route = "upload_json_text") =>
        LET as_file == upload_file([kind |-> "json", valid |-> TRUE, readable |-> TRUE,
                                    json_data |-> input.json_text.json_data])
        IN  { RecordOf(call[i]) : i \in 1..Len(call) }
                = { RecordOf(as_file.endorsements[i]) : i \in 1..Len(as_file.endorsements) }

-----------------------------------------------------------------------------
(* Properties of concurrent extraction calls, checked under SpecPar *)

\* C22: whatever the interleaving of two extraction calls, the mapping table
\* and each call's input stay as they were, and each call returns what it
\* returns when it runs alone.
C22_CallsIndependent ==
    /\ input.core_field_mappings = core_field_mappings
    /\ \A t \in Threads :
          /\ input.args[t] = call[t].arg
          /\ pc[t] = "returned" => ret[t] = RunAlone(call[t].fn, call[t].arg)

\* C22 witness: two normalizer calls on different maps; the first has returned
\* its core fields while the second is in the middle of the mapping table.
C22_Witness ==
    /\ call[1].fn = "extract_core_fields_from_combination"
    /\ call[2].fn = "extract_core_fields_from_combination"
    /\ call[1].arg # call[2].arg
    /\ pc[1] = "returned"
    /\ ret[1] # <<>>
    /\ pc[2] = "loop"
    /\ df[2].i = 9
    /\ df[2].core_fields # <<>>

-----------------------------------------------------------------------------
(* Properties of the endorsement routes, checked under SpecCrud *)

\* C28: after any sequence of create, upload, single update, bulk status update
\* and delete operations, every stored endorsement has a status in
\* {'Approved', 'Rejected', 'In Review'}.
C28_StatusInOptions ==
    \A i \in 1..Len(endorsements.rows) : endorsements.rows[i].status \in StatusOptions

-----------------------------------------------------------------------------
(* Properties of the sessions, checked under SpecAuth *)

\* The request of thread t is accepted in this step
Accepts(t) == pc[t] = "read" /\ pc'[t] = "idle" /\ ret'[t].status = 200

\* Thread t starts a request in this step, carrying a token already removed
StartsLate(t) ==
    /\ pc[t] = "idle"
    /\ call'[t].session_token \in DOMAIN input.removed
    /\ (pc'[t] # "idle" \/ ret'[t] # ret[t] \/ call'[t] # call[t])

\* C29: get_current_user accepts a session token only if a successful login
\* issued it, its expiry has not passed, and it had not been logged out or
\* found expired when the request tested it; a token logged out or found
\* expired is no longer in active_sessions, and every request that starts
\* afterwards with it is rejected with 401.
C29_SessionLifecycle ==
    /\ [](\A k \in DOMAIN input.removed : k \notin DOMAIN structure_info)
    /\ [][\A t \in Threads :
            /\ Accepts(t) =>
                  LET session_token == call[t].session_token
                  IN  /\ session_token \in DOMAIN input.issued
                      /\ df <= input.issued[session_token]
                      /\ session_token \in DOMAIN input.removed =>
                             t \in input.removed[session_token]
            /\ StartsLate(t) =>
                  /\ pc'[t] = "idle"
                  /\ ret'[t].status = 401]_vars

\* C29 witness: token 1 was found expired and removed by the request of thread
\* 1, and the request of thread 2, started afterwards with it, was rejected
\* with 401 as not authenticated.
C29_Witness ==
    /\ 1 \in DOMAIN input.removed
    /\ input.removed[1] = {1}
    /\ df > input.issued[1]
    /\ ret[1] = [status |-> 401, detail |-> "Session expired"]
    /\ pc[2] = "idle"
    /\ call[2].session_token = 1
    /\ ret[2] = [status |-> 401, detail |-> "Not authenticated"]

====
